---- MODULE Spec2Model ----
(***************************************************************************)
(* The constant folder of src/src/dm/constants.rs as a state machine.      *)
(*                                                                         *)
(* The object tree is the variable `tree`; evaluate_all, the resolver      *)
(* constant_ident_lookup and the walk recursive_lookup are the actions.    *)
(* The Rust call stack is the variable `stack`: one "cil" frame for every  *)
(* call of constant_ident_lookup that is folding its initializer (line     *)
(* 69), one "rl" frame for every recursive_lookup loop in progress.  The   *)
(* expression folder (expr, term, follow, unary, binary, ident) is a       *)
(* family of operators; a fold is suspended where it calls                 *)
(* recursive_lookup and resumed with the value the lookup returned, which  *)
(* the "cil" frame keeps in `ans`.                                         *)
(***************************************************************************)
EXTENDS Integers, Sequences, FiniteSets, TLC

VARIABLES
    tree,       \* ObjectTree: slot <<ty, name>> -> TypeVar
    stack,      \* the call stack below evaluate_all, innermost frame last
    pc,         \* "driver" | "call" | "fold" | "ret" | "done"
    arg,        \* arguments of the constant_ident_lookup about to run
    res,        \* what the last constant_ident_lookup returned
    tysLeft,    \* evaluate_all: node indices not yet visited
    curTy,      \* evaluate_all: the node being visited
    keysLeft,   \* evaluate_all: keys of curTy not yet visited
    result,     \* what evaluate_all returned: None while it runs
    folds,      \* per slot, how often line 69 handed its initializer to the folder
    firstRun,   \* the outcome of an earlier run over the same initial tree
    trail,      \* the order evaluate_all visits nodes and keys in, when it is kept
    overflow_checks,  \* the build: rustc -C overflow-checks (on in a debug build)
    job,        \* a single call of a folder function: its name and arguments
    out,        \* what that call returned: None until it has run
    stdout      \* the lines written to standard output, when they are kept

\* what the steps of evaluate_all leave alone
fold_vars == <<overflow_checks, job, out, stdout>>

vars == <<tree, stack, pc, arg, res, tysLeft, curTy, keysLeft, result, folds, firstRun,
          trail, overflow_checks, job, out, stdout>>

----------------------------------------------------------------------------
(* Bounds of the model. *)

\* integer literals of the initializers range over 1..MaxLit
MaxLit == 1
\* the call stack is cut off at this depth (never reached by the code as written:
\* a slot is on the stack at most once)
MaxDepth == 12

----------------------------------------------------------------------------
(* Option<T> *)

None == [some |-> FALSE]
Some(x) == [some |-> TRUE, val |-> x]

----------------------------------------------------------------------------
(* The class graph: the root, /C and /C/D. *)

NoType == -1
Root == 0
TypeC == 1
TypeD == 2
node_indices == {Root, TypeC, TypeD}

parent_type(ty) == IF ty = Root THEN NoType ELSE ty - 1

TypePathOf(ty) ==
    CASE ty = Root -> <<>>
      [] ty = TypeC -> <<"C">>
      [] ty = TypeD -> <<"C", "D">>

\* lines 126-130: the type hint as a path, '/' before every segment
RECURSIVE full_path(_)
full_path(type_hint) ==
    IF type_hint = <<>> THEN ""
    ELSE "/" \o Head(type_hint) \o full_path(Tail(type_hint))

\* tree.types.get(full_path): the node whose absolute path is the joined segments
types_get(path) ==
    LET hits == {ty \in node_indices \ {Root} : full_path(TypePathOf(ty)) = full_path(path)}
    IN  IF hits # {} THEN Some(CHOOSE ty \in hits : TRUE) ELSE None

----------------------------------------------------------------------------
(* Constant: the reduced values. *)

ConstNull(hint) == [k |-> "Null", hint |-> hint]
ConstInt(i) == [k |-> "Int", i |-> i]
ConstFloat(f) == [k |-> "Float", f |-> f]
ConstString(s) == [k |-> "String", s |-> s]
ConstCall(fn, args) == [k |-> "Call", fn |-> fn, args |-> args]
ConstResource(s) == [k |-> "Resource", s |-> s]
\* args is an Option: the field is named opt_args
ConstNew(type_, args) == [k |-> "New", type_ |-> type_, opt_args |-> args]
ConstList(elements) == [k |-> "List", elements |-> elements]
ConstPrefab(prefab) == [k |-> "Prefab", prefab |-> prefab]

\* Prefab { path, vars }: vars in insertion order, each [k, v]
Prefab(path, overrides) == [path |-> path, vars |-> overrides]

\* NewType
NewPrefab(prefab) == [k |-> "Prefab", prefab |-> prefab]
NewImplicit == [k |-> "Implicit"]
NewIdent(name) == [k |-> "Ident", name |-> name]

(* Expression, Term and Follow: the parse tree of an initializer. *)

Base(unary, t, fol) == [e |-> "Base", unary |-> unary, term |-> t, follow |-> fol]
BinaryOp(op, lhs, rhs) == [e |-> "BinaryOp", op |-> op, lhs |-> lhs, rhs |-> rhs]
AssignOp == [e |-> "AssignOp"]

TermNull == [t |-> "Null"]
TermInt(i) == [t |-> "Int", i |-> i]
TermFloat(f) == [t |-> "Float", f |-> f]
TermString(s) == [t |-> "String", s |-> s]
TermIdent(name) == [t |-> "Ident", name |-> name]
TermCall(name, args) == [t |-> "Call", name |-> name, args |-> args]
TermExpr(e) == [t |-> "Expr", expr |-> e]
TermResource(s) == [t |-> "Resource", s |-> s]
TermNew(type_, args) == [t |-> "New", type_ |-> type_, opt_args |-> args]
TermList(vec) == [t |-> "List", vec |-> vec]
TermPrefab(prefab) == [t |-> "Prefab", prefab |-> prefab]

\* Term::from(Expression): an expression with no unary operator and no follow
\* is its term, any other expression a parenthesised term
RECURSIVE TermFrom(_)
TermFrom(e) ==
    IF e.e = "Base" /\ e.unary = <<>> /\ e.follow = <<>>
    THEN (IF e.term.t = "Expr" THEN TermFrom(e.term.expr) ELSE e.term)
    ELSE [t |-> "Expr", expr |-> e]

FollowField(name) == [f |-> "Field", name |-> name]
FollowIndex == [f |-> "Index"]

----------------------------------------------------------------------------
(* Outcomes of a (suspended) fold. *)

Val(v, ans) == [o |-> "val", v |-> v, ans |-> ans]
Fail(kind, what) == [o |-> "err", kind |-> kind, what |-> what]
Need(ty, name, mbs) == [o |-> "need", ty |-> ty, ident |-> name, must_be_static |-> mbs]
Fault == [o |-> "panic"]

(* i32 arithmetic, wrapping modulo 2^32.  No intermediate result leaves   *)
(* the i32 range.                                                          *)
MaxI32 == 2147483647
MinI32 == -MaxI32 - 1

WrapAdd(a, b) ==
    IF a > 0 /\ b > 0 /\ a > MaxI32 - b
    THEN (a - MaxI32 - 1) + (b - MaxI32 - 1)
    ELSE IF a < 0 /\ b < 0 /\ a < MinI32 - b
    THEN (a + MaxI32 + 1) + (b + MaxI32 + 1)
    ELSE a + b

WrapNeg(a) == IF a = MinI32 THEN MinI32 ELSE -a

(* The bits of an i32, two's complement: bit 31 is the sign, Low31 the rest. *)

\* !a
Not32(a) == IF a < 0 THEN -(a + 1) ELSE -a - 1

Low31(a) == IF a < 0 THEN a + MaxI32 + 1 ELSE a

\* a & b of two numbers in 0..2^31-1
RECURSIVE And31(_, _)
And31(a, b) ==
    IF a = 0 \/ b = 0 THEN 0
    ELSE (a % 2) * (b % 2) + 2 * And31(a \div 2, b \div 2)

\* the low bits given, the i32 with the sign bit set or not
WithSign(low, neg) == IF neg THEN low - MaxI32 - 1 ELSE low

\* a & b
And32(a, b) == WithSign(And31(Low31(a), Low31(b)), a < 0 /\ b < 0)

\* a | b = !(!a & !b)
Or32(a, b) == Not32(And32(Not32(a), Not32(b)))

\* a << k for k in 0..31: k doublings, each modulo 2^32
RECURSIVE Shl32(_, _)
Shl32(a, k) == IF k = 0 THEN a ELSE Shl32(WithSign((Low31(a) % 1073741824) * 2, Low31(a) >= 1073741824), k - 1)

\* a >> k for k in 0..31: the sign is kept (the floor of a / 2^k)
RECURSIVE Shr32(_, _)
Shr32(a, k) == IF k = 0 THEN a ELSE Shr32(a \div 2, k - 1)

WrapSub(a, b) ==
    IF b = MinI32 THEN WrapAdd(WrapAdd(a, MaxI32), 1) ELSE WrapAdd(a, -b)

\* the low 16 bits of x * y, for x and y in 0 .. 2^16 - 1
Mul16Low(x, y) ==
    ((((x \div 256) * (y % 256) + (x % 256) * (y \div 256)) % 256) * 256
        + (x % 256) * (y % 256)) % 65536

\* a * b modulo 2^32, from the 16-bit halves of a and b
WrapMul(a, b) ==
    LET a0 == a % 65536
        a1 == (a \div 65536) % 65536
        b0 == b % 65536
        b1 == (b \div 65536) % 65536
        t == (a0 % 256) * (b0 % 256)
        m == (a0 \div 256) * (b0 % 256) + (a0 % 256) * (b0 \div 256) + (t \div 256)
        lo == (m % 256) * 256 + (t % 256)
        hi == ((a0 \div 256) * (b0 \div 256) + (m \div 256)
                  + Mul16Low(a1, b0) + Mul16Low(a0, b1)) % 65536
    IN  (IF hi >= 32768 THEN hi - 65536 ELSE hi) * 65536 + lo

\* Rust's integer division truncates toward zero
TruncDiv(a, b) ==
    IF b = MinI32 THEN (IF a = MinI32 THEN 1 ELSE 0)
    ELSE IF a = MinI32
    THEN (IF b > 0 THEN -(MaxI32 \div b) - (IF (MaxI32 % b) + 1 = b THEN 1 ELSE 0)
                   ELSE (MaxI32 \div (-b)) + (IF (MaxI32 % (-b)) + 1 = -b THEN 1 ELSE 0))
    ELSE IF (a >= 0) = (b >= 0)
    THEN (IF a >= 0 THEN a ELSE -a) \div (IF b >= 0 THEN b ELSE -b)
    ELSE -((IF a >= 0 THEN a ELSE -a) \div (IF b >= 0 THEN b ELSE -b))

\* the i32 operations whose mathematical result leaves the i32 range
AddOverflows(a, b) ==
    \/ a > 0 /\ b > 0 /\ a > MaxI32 - b
    \/ a < 0 /\ b < 0 /\ a < MinI32 - b

SubOverflows(a, b) ==
    IF b = MinI32 THEN a >= 0 ELSE AddOverflows(a, -b)

MulOverflows(a, b) ==
    CASE a = 0 \/ b = 0 -> FALSE
      [] a = -1 -> b = MinI32
      [] b = -1 -> a = MinI32
      [] OTHER -> LET p == WrapMul(a, b) IN TruncDiv(p, b) # a

----------------------------------------------------------------------------
(* f32: IEEE 754 single precision, round to nearest, ties to even.  A      *)
(* finite value is (-1)^neg * m * 2^e with m odd and below 2^24, or m = 0. *)
(* No intermediate integer reaches 2^31.                                   *)

RECURSIVE Pow2(_)
Pow2(n) == IF n = 0 THEN 1 ELSE 2 * Pow2(n - 1)

RECURSIVE BitLen(_)
BitLen(n) == IF n = 0 THEN 0 ELSE 1 + BitLen(n \div 2)

F32Fin(neg, m, e) == [c |-> "fin", neg |-> neg, m |-> m, e |-> e]
F32Inf(neg) == [c |-> "inf", neg |-> neg, m |-> 0, e |-> 0]
F32NaN == [c |-> "nan", neg |-> FALSE, m |-> 0, e |-> 0]
F32Zero(neg) == F32Fin(neg, 0, 0)

\* significand bits, largest and smallest exponent of a bit of an f32
F32Bits == 24
F32MaxTop == 127
F32MinExp == -149

RECURSIVE F32Reduce(_, _, _)
F32Reduce(neg, m, e) ==
    IF m = 0 THEN F32Zero(neg)
    ELSE IF m % 2 = 0 THEN F32Reduce(neg, m \div 2, e + 1)
    ELSE F32Fin(neg, m, e)

(* Rounding.  F32Round(neg, x, ex, sticky) is the f32 nearest to             *)
(* (x + d) * 2^ex, where 0 < d < 1 if sticky and d = 0 if not; a caller that  *)
(* passes sticky passes an x of 26 bits or more.  The steps are operators of  *)
(* their own so that each intermediate value is computed once.                *)

\* q2 * 2^floor, or infinity if that is beyond the largest f32
F32Finish(neg, floor, q2) ==
    IF floor + BitLen(q2) - 1 > F32MaxTop THEN F32Inf(neg) ELSE F32Reduce(neg, q2, floor)

\* q with remainder r out of 2 * half: to nearest, ties to even
F32RoundUp(neg, floor, q, r, half, sticky) ==
    F32Finish(neg, floor,
              IF r > half \/ (r = half /\ (sticky \/ q % 2 = 1)) THEN q + 1 ELSE q)

\* p = 2^(floor - ex): the bits of x below `floor` are cut
F32RoundCut(neg, x, sticky, floor, p) ==
    F32RoundUp(neg, floor, x \div p, x % p, p \div 2, sticky)

\* floor: the exponent of the lowest bit the result keeps
F32RoundFloor(neg, x, ex, sticky, floor) ==
    IF floor <= ex THEN F32Reduce(neg, x, ex)
    ELSE IF floor - ex > 30 THEN F32Zero(neg)
    ELSE F32RoundCut(neg, x, sticky, floor, Pow2(floor - ex))

\* top: the exponent of the leading bit of x * 2^ex
F32RoundTop(neg, x, ex, sticky, top) ==
    IF x = 0 THEN F32Zero(neg)
    ELSE IF top > F32MaxTop THEN F32Inf(neg)
    ELSE F32RoundFloor(neg, x, ex, sticky,
                       IF top - (F32Bits - 1) > F32MinExp
                       THEN top - (F32Bits - 1) ELSE F32MinExp)

F32Round(neg, x, ex, sticky) == F32RoundTop(neg, x, ex, sticky, ex + BitLen(x) - 1)

\* `i as f32`
IntToF32(i) ==
    IF i = MinI32 THEN F32Fin(TRUE, 1, 31)
    ELSE F32Round(i < 0, IF i < 0 THEN -i ELSE i, 0, FALSE)

F32Neg(a) == IF a.c = "nan" THEN a ELSE [a EXCEPT !.neg = ~a.neg]

(* Addition of finite non-zero operands, a the one whose leading bit is not  *)
(* the lower: a is aligned to 27 bits (a2), b to the same exponent (b2) with  *)
(* the bits lost kept as sticky.                                              *)

F32AddSum(an, bn, a2, b2, exA, sticky) ==
    F32Round(IF an = bn \/ sticky THEN an
             ELSE IF a2 = b2 THEN FALSE
             ELSE IF a2 > b2 THEN an ELSE bn,
             IF an = bn THEN a2 + b2
             ELSE IF sticky THEN a2 - b2 - 1
             ELSE IF a2 >= b2 THEN a2 - b2 ELSE b2 - a2,
             exA, sticky)

\* s: how far b lies below the exponent exA of a2
F32AddShift(an, bn, a2, bm, exA, s) ==
    F32AddSum(an, bn, a2,
              IF s <= 0 THEN bm * Pow2(-s) ELSE IF s > 30 THEN 0 ELSE bm \div Pow2(s),
              exA,
              s > 0 /\ (s > 30 \/ bm % Pow2(s) # 0))

\* k: the shift that brings a.m to 27 bits
F32AddAt(a, b, k) ==
    F32AddShift(a.neg, b.neg, a.m * Pow2(k), b.m, a.e - k, (a.e - k) - b.e)

F32AddOrdered(a, b) == F32AddAt(a, b, 27 - BitLen(a.m))

F32Add(a, b) ==
    CASE a.c = "nan" \/ b.c = "nan" -> F32NaN
      [] a.c = "inf" /\ b.c = "inf" -> IF a.neg = b.neg THEN a ELSE F32NaN
      [] a.c = "inf" -> a
      [] b.c = "inf" -> b
      [] a.m = 0 /\ b.m = 0 -> F32Zero(a.neg /\ b.neg)
      [] a.m = 0 /\ b.m # 0 -> b
      [] a.m # 0 /\ b.m = 0 -> a
      [] OTHER ->
            F32AddOrdered(IF a.e + BitLen(a.m) >= b.e + BitLen(b.m) THEN a ELSE b,
                          IF a.e + BitLen(a.m) >= b.e + BitLen(b.m) THEN b ELSE a)

(* Multiplication: the 48-bit product of the significands from their 12-bit  *)
(* halves, as high * 2^24 + low, of which 30 bits at most go to the rounding. *)

\* p = 2^(24 - k): the bits of low below p are cut
F32MulCut(neg, ex, hx, low, p) == F32Round(neg, hx + (low \div p), ex, low % p # 0)

\* k: how many bits of low are taken
F32MulTake(neg, e, high, low, k) ==
    F32MulCut(neg, e + 24 - k, high * Pow2(k), low, Pow2(24 - k))

F32MulHigh(neg, e, high, low) ==
    F32MulTake(neg, e, high, low, IF BitLen(high) < 6 THEN 24 ELSE 30 - BitLen(high))

F32MulLow(neg, e, h, low24) ==
    F32MulHigh(neg, e, h + (low24 \div 16777216), low24 % 16777216)

F32MulMid(neg, e, hh, mid, ll) ==
    F32MulLow(neg, e, hh + (mid \div 4096), (mid % 4096) * 4096 + ll)

F32MulLimbs(neg, e, a1, a0, b1, b0) ==
    F32MulMid(neg, e, a1 * b1, a1 * b0 + a0 * b1, a0 * b0)

F32Mul(a, b) ==
    CASE a.c = "nan" \/ b.c = "nan" -> F32NaN
      [] a.c = "inf" /\ b.c = "inf" -> F32Inf(a.neg # b.neg)
      [] a.c = "inf" /\ b.c = "fin" -> IF b.m = 0 THEN F32NaN ELSE F32Inf(a.neg # b.neg)
      [] a.c = "fin" /\ b.c = "inf" -> IF a.m = 0 THEN F32NaN ELSE F32Inf(a.neg # b.neg)
      [] OTHER ->
            IF a.m = 0 \/ b.m = 0 THEN F32Zero(a.neg # b.neg)
            ELSE F32MulLimbs(a.neg # b.neg, a.e + b.e,
                             a.m \div 4096, a.m % 4096, b.m \div 4096, b.m % 4096)

(* Division: both significands aligned to 24 bits, then 26 bits of quotient  *)
(* after the point by long division, the remainder as sticky.                 *)

\* `steps` more bits of the quotient of r / d, r < d
RECURSIVE LongDiv(_, _, _, _)
LongDiv(r, d, steps, q) ==
    IF steps = 0 THEN <<q, r>>
    ELSE IF 2 * r >= d
    THEN LongDiv(2 * r - d, d, steps - 1, 2 * q + 1)
    ELSE LongDiv(2 * r, d, steps - 1, 2 * q)

F32DivRound(neg, qr, ex) == F32Round(neg, qr[1], ex, qr[2] # 0)

F32DivLong(neg, n, d, ex) == F32DivRound(neg, LongDiv(n % d, d, 26, n \div d), ex)

\* sa, sb: the shifts that bring a.m and b.m to 24 bits
F32DivAligned(neg, a, b, sa, sb) ==
    F32DivLong(neg, a.m * Pow2(sa), b.m * Pow2(sb), (a.e - sa) - (b.e - sb) - 26)

F32Div(a, b) ==
    CASE a.c = "nan" \/ b.c = "nan" -> F32NaN
      [] a.c = "inf" /\ b.c = "inf" -> F32NaN
      [] a.c = "inf" /\ b.c = "fin" -> F32Inf(a.neg # b.neg)
      [] a.c = "fin" /\ b.c = "inf" -> F32Zero(a.neg # b.neg)
      [] OTHER ->
            IF b.m = 0 THEN (IF a.m = 0 THEN F32NaN ELSE F32Inf(a.neg # b.neg))
            ELSE IF a.m = 0 THEN F32Zero(a.neg # b.neg)
            ELSE F32DivAligned(a.neg # b.neg, a, b, 24 - BitLen(a.m), 24 - BitLen(b.m))

----------------------------------------------------------------------------
(* ConstantFolder: the expression folder.  `ty` is self.ty; `ans` holds    *)
(* the values the recursive_lookup calls of this fold have returned so     *)
(* far, in call order.                                                     *)

\* an i32 operation that overflows: a panic where the build checks for overflow,
\* the wrapped result where it does not
checked(overflows, wrapped) ==
    IF overflows /\ overflow_checks THEN Fault ELSE Val(ConstInt(wrapped), <<>>)

\* unary that takes Not of a null for 1
unary_not_null(termv, op) ==
    CASE op = "Neg" /\ termv.k = "Int" -> checked(termv.i = MinI32, WrapNeg(termv.i))
      [] op = "BitNot" /\ termv.k = "Int" -> Val(ConstInt(Not32(termv.i)), <<>>)
      [] op = "Not" /\ termv.k = "Int" -> Val(ConstInt(IF termv.i # 0 THEN 0 ELSE 1), <<>>)
      [] op = "Not" /\ termv.k = "Null" -> Val(ConstInt(1), <<>>)
      [] op = "Neg" /\ termv.k = "Float" -> Val(ConstFloat(F32Neg(termv.f)), <<>>)
      [] OTHER -> Fail("non-constant unary operation", op)

\* ConstantFolder::unary
unary(termv, op) ==
    CASE op = "Neg" /\ termv.k = "Int" -> checked(termv.i = MinI32, WrapNeg(termv.i))
      [] op = "BitNot" /\ termv.k = "Int" -> Val(ConstInt(Not32(termv.i)), <<>>)
      [] op = "Not" /\ termv.k = "Int" -> Val(ConstInt(IF termv.i # 0 THEN 0 ELSE 1), <<>>)
      [] op = "Neg" /\ termv.k = "Float" -> Val(ConstFloat(F32Neg(termv.f)), <<>>)
      [] OTHER -> Fail("non-constant unary operation", op)

\* the Int, Int arm of numeric!
numeric_int(op, a, b) ==
    CASE op = "Add" -> checked(AddOverflows(a, b), WrapAdd(a, b))
      [] op = "Sub" -> checked(SubOverflows(a, b), WrapSub(a, b))
      [] op = "Mul" -> checked(MulOverflows(a, b), WrapMul(a, b))
      [] op = "Div" -> IF b = 0 \/ (a = MinI32 /\ b = -1)
                       THEN Fault
                       ELSE Val(ConstInt(TruncDiv(a, b)), <<>>)

\* the three arms of numeric! with a Float operand; a - b is a + (-b)
numeric_float(op, a, b) ==
    CASE op \in {"Add", "Sub"} ->
            Val(ConstFloat(F32Add(a, IF op = "Sub" THEN F32Neg(b) ELSE b)), <<>>)
      [] op = "Mul" -> Val(ConstFloat(F32Mul(a, b)), <<>>)
      [] op = "Div" -> Val(ConstFloat(F32Div(a, b)), <<>>)

\* the operand of a Float arm: `lhs as f32` for an Int, the value for a Float
as_f32(c) == IF c.k = "Int" THEN IntToF32(c.i) ELSE c.f

\* the (Int, Int) arm of integer!: a shift by less than 0 or more than 31 bits
\* overflows; without overflow checks the amount is taken modulo 32
integer(op, a, b) ==
    CASE op = "BitOr" -> Val(ConstInt(Or32(a, b)), <<>>)
      [] op = "BitAnd" -> Val(ConstInt(And32(a, b)), <<>>)
      [] op = "LShift" -> checked(b < 0 \/ b > 31, Shl32(a, b % 32))
      [] op = "RShift" -> checked(b < 0 \/ b > 31, Shr32(a, b % 32))

\* binary without the arms of numeric! that have a Float operand
binary_no_promotion(lhs, rhs, op) ==
    IF op \in {"Add", "Sub", "Mul", "Div"} /\ lhs.k = "Int" /\ rhs.k = "Int"
    THEN numeric_int(op, lhs.i, rhs.i)
    ELSE IF op \in {"Add", "Sub", "Mul", "Div"} /\ lhs.k = "Float" /\ rhs.k = "Float"
    THEN numeric_float(op, lhs.f, rhs.f)
    ELSE IF op = "Add" /\ lhs.k = "String" /\ rhs.k = "String"
    THEN Val(ConstString(lhs.s \o rhs.s), <<>>)
    ELSE Fail("non-constant binary operation", op)

\* ConstantFolder::binary
binary(lhs, rhs, op) ==
    IF op \in {"Add", "Sub", "Mul", "Div"} /\ lhs.k = "Int" /\ rhs.k = "Int"
    THEN numeric_int(op, lhs.i, rhs.i)
    ELSE IF /\ op \in {"Add", "Sub", "Mul", "Div"}
            /\ lhs.k \in {"Int", "Float"} /\ rhs.k \in {"Int", "Float"}
    THEN numeric_float(op, as_f32(lhs), as_f32(rhs))
    ELSE IF op \in {"BitOr", "BitAnd", "LShift", "RShift"} /\ lhs.k = "Int" /\ rhs.k = "Int"
    THEN integer(op, lhs.i, rhs.i)
    ELSE IF op = "Add" /\ lhs.k = "String" /\ rhs.k = "String"
    THEN Val(ConstString(lhs.s \o rhs.s), <<>>)
    ELSE Fail("non-constant binary operation", op)

\* ConstantFolder::recursive_lookup, as the folder sees it: the value an earlier
\* resumption recorded, or the request to run the walk now
recursive_lookup(ty, name, must_be_static, ans) ==
    IF ans # <<>>
    THEN Val(Head(ans), Tail(ans))
    ELSE Need(ty, name, must_be_static)

\* ConstantFolder::ident
ident(ty, name, type_hint, must_be_static, ans) ==
    IF name = "null"
    THEN Val(ConstNull(type_hint), ans)
    ELSE recursive_lookup(ty, name, must_be_static, ans)

\* follow that asks for the field without must_be_static
follow_nonstatic(ty, termv, fol, ans) ==
    IF termv.k = "Null" /\ termv.hint.some /\ fol.f = "Field"
    THEN LET idx == types_get(termv.hint.val)
         IN  IF idx.some
             THEN recursive_lookup(idx.val, fol.name, FALSE, ans)
             ELSE Fail("unknown typepath", full_path(termv.hint.val))
    ELSE Fail("non-constant expression followers", fol.f)

\* ConstantFolder::follow
follow(ty, termv, fol, ans) ==
    IF termv.k = "Null" /\ termv.hint.some /\ fol.f = "Field"
    THEN LET idx == types_get(termv.hint.val)
         IN  IF idx.some
             THEN recursive_lookup(idx.val, fol.name, TRUE, ans)
             ELSE Fail("unknown typepath", full_path(termv.hint.val))
    ELSE Fail("non-constant expression followers", fol.f)

HexDigits == <<"0", "1", "2", "3", "4", "5", "6", "7", "8", "9", "a", "b", "c", "d", "e", "f">>

\* the hexadecimal digits of n >= 0, lowercase, at least `width` of them
RECURSIVE hex(_, _)
hex(n, width) ==
    IF n < 16
    THEN (IF width > 1 THEN hex(0, width - 1) ELSE "") \o HexDigits[n + 1]
    ELSE hex(n \div 16, width - 1) \o HexDigits[(n % 16) + 1]

\* format!("{:02x}", i) of an i32: a negative i prints as its two's complement
format_02x(i) ==
    IF i >= 0 THEN hex(i, 2)
    ELSE LET v == i + MaxI32 + 1
         IN  HexDigits[8 + (v \div 268435456) + 1] \o hex(v % 268435456, 7)

\* rgb() that does not clamp
rgb_digits_unclamped(i) == format_02x(i)

\* lines 251-252: the clamp to [0, 255] and the two digits
rgb_digits(i) ==
    LET low == IF i < 255 THEN i ELSE 255
        clamped == IF low > 0 THEN low ELSE 0
    IN  format_02x(clamped)

\* `let x = ..;`: e of the value of x, x evaluated once
Let(x, e(_)) == CHOOSE r \in {e(v) : v \in {x}} : TRUE

RECURSIVE expr(_, _, _, _)
RECURSIVE term(_, _, _, _)
RECURSIVE fold_each(_, _, _)
RECURSIVE follow_each(_, _, _, _)
RECURSIVE unary_each(_, _)
RECURSIVE unary_each_forward(_, _)

\* the loop of lines 95-97: the follows, left to right
follow_each(ty, termv, fols, ans) ==
    IF fols = <<>>
    THEN Val(termv, ans)
    ELSE Let(follow(ty, termv, Head(fols), ans),
             LAMBDA r : IF r.o # "val" THEN r
                        ELSE follow_each(ty, r.v, Tail(fols), r.ans))

\* the unary operators applied first one first
unary_each_forward(termv, ops) ==
    IF ops = <<>>
    THEN Val(termv, <<>>)
    ELSE LET r == unary(termv, Head(ops))
         IN  IF r.o # "val" THEN r ELSE unary_each_forward(r.v, Tail(ops))

\* the loop of lines 98-100: the unary operators, last one first
unary_each(termv, ops) ==
    IF ops = <<>>
    THEN Val(termv, <<>>)
    ELSE Let(unary(termv, ops[Len(ops)]),
             LAMBDA r : IF r.o # "val" THEN r
                        ELSE unary_each(r.v, SubSeq(ops, 1, Len(ops) - 1)))

\* line 101: the term after the unary operators
expr_unary(f, u) == IF u.o # "val" THEN u ELSE Val(u.v, f.ans)

\* lines 98-100, on the term after the follows
expr_follow(expression, f) ==
    IF f.o # "val" THEN f
    ELSE Let(unary_each(f.v, expression.unary), LAMBDA u : expr_unary(f, u))

\* lines 95-97, on the folded term
expr_base(ty, expression, t) ==
    IF t.o # "val" THEN t
    ELSE Let(follow_each(ty, t.v, expression.follow, t.ans),
             LAMBDA f : expr_follow(expression, f))

\* line 106: self.binary(lhs, rhs, op)?
expr_binary(rhs, b) == IF b.o # "val" THEN b ELSE Val(b.v, rhs.ans)

\* line 105, on the folded left operand and the folded right operand
expr_rhs(expression, lhs, rhs) ==
    IF rhs.o # "val" THEN rhs
    ELSE Let(binary(lhs.v, rhs.v, expression.op), LAMBDA b : expr_binary(rhs, b))

\* line 104, on the folded left operand
expr_lhs(ty, expression, lhs) ==
    IF lhs.o # "val" THEN lhs
    ELSE Let(expr(ty, expression.rhs, None, lhs.ans),
             LAMBDA rhs : expr_rhs(expression, lhs, rhs))

\* ConstantFolder::expr
expr(ty, expression, type_hint, ans) ==
    CASE expression.e = "Base" ->
            Let(term(ty, expression.term,
                     IF expression.follow = <<>> /\ expression.unary = <<>>
                     THEN type_hint ELSE None, ans),
                LAMBDA t : expr_base(ty, expression, t))
      [] expression.e = "BinaryOp" ->
            Let(expr(ty, expression.lhs, None, ans),
                LAMBDA lhs : expr_lhs(ty, expression, lhs))
      [] OTHER -> Fail("non-constant augmented assignment", "")

\* An expression a term folds, the hint it is folded with, whether the value
\* must be an Int (the test of line 250), and whether it stands for the
\* identifier key of a list element (line 224).
Item(e, hint, int_only) ==
    [e |-> e, hint |-> hint, int_only |-> int_only, ident_key |-> FALSE]

\* out.push: the folded expression before what the rest has folded
fold_push(each, r) == IF r.o # "val" THEN r ELSE Val(<<each.v>> \o r.v, r.ans)

\* one round of the loop, on the folded head of the items
fold_head(ty, items, each) ==
    IF each.o # "val" THEN each
    ELSE IF Head(items).int_only /\ each.v.k # "Int"
    THEN Fail("malformed rgb() call", "")
    ELSE Let(fold_each(ty, Tail(items), each.ans), LAMBDA r : fold_push(each, r))

\* the loops of expr_vec (114-116), of rgb (249-256), of prefab (274-277) and
\* of a list (219-234): each expression is folded in order, the first failure
\* is returned
fold_each(ty, items, ans) ==
    IF items = <<>>
    THEN Val(<<>>, ans)
    ELSE Let(expr(ty, Head(items).e, Head(items).hint, ans),
             LAMBDA each : fold_head(ty, items, each))

\* expr_vec that starts with the last expression
expr_vec_reversed(v) == [i \in 1..Len(v) |-> Item(v[Len(v) + 1 - i], None, FALSE)]

\* expr_vec: every expression with no hint
expr_vec(v) == [i \in 1..Len(v) |-> Item(v[i], None, FALSE)]

\* the arguments of rgb(): no hint, and an Int is asked for (line 250)
rgb_args(v) == [i \in 1..Len(v) |-> Item(v[i], None, TRUE)]

\* ConstantFolder::prefab: every override with no hint
prefab(p) == [i \in 1..Len(p.vars) |-> Item(p.vars[i].v, None, FALSE)]

\* lines 210-217: the hint of the elements of a list
element_type(type_hint) ==
    IF type_hint.some /\ type_hint.val # <<>> /\ type_hint.val[1] = "list"
    THEN Some(Tail(type_hint.val))
    ELSE None

\* a list whose identifier keys are folded like any other key
list_key_folded(key, et) == Item(Base(<<>>, key, <<>>), et, FALSE)

\* lines 222-230: the key of an element that has a value; an identifier is the
\* String of its name, any other term is folded with the hint of the elements
\* (self.term(other, element_type) is the fold of the expression that has the
\* term and nothing else)
list_key(key, et) ==
    IF key.t = "Ident"
    THEN [Item(Base(<<>>, TermString(key.name), <<>>), None, FALSE) EXCEPT !.ident_key = TRUE]
    ELSE Item(Base(<<>>, key, <<>>), et, FALSE)

\* lines 219-234: what the elements of a list have folded, in order
RECURSIVE list_items(_, _)
list_items(vec, et) ==
    IF vec = <<>> THEN <<>>
    ELSE (IF Head(vec).val.some
          THEN <<list_key(TermFrom(Head(vec).key), et), Item(Head(vec).val.val, et, FALSE)>>
          ELSE <<Item(Head(vec).key, et, FALSE)>>)
         \o list_items(Tail(vec), et)

\* lines 196-207: what a new expression has folded: the overrides of its
\* prefab, then its arguments
new_items(t) ==
    (IF t.type_.k = "Prefab" THEN prefab(t.type_.prefab) ELSE <<>>)
        \o (IF t.opt_args.some THEN expr_vec(t.opt_args.val) ELSE <<>>)

\* what term hands to expr, by the arm taken
items_of(t, type_hint) ==
    CASE t.t = "New" -> new_items(t)
      [] t.t = "List" -> list_items(t.vec, element_type(type_hint))
      [] t.t = "Call" -> IF t.name = "rgb" THEN rgb_args(t.args) ELSE expr_vec(t.args)
      [] t.t = "Prefab" -> prefab(t.prefab)
      [] t.t = "Expr" -> <<Item(t.expr, type_hint, FALSE)>>

\* the result of the rgb loop: write!(result, "{:02x}", clamped) for each Int
RECURSIVE rgb_result(_, _)
rgb_result(digits, vs) ==
    IF vs = <<>> THEN digits
    ELSE rgb_result(digits \o rgb_digits(Head(vs).i), Tail(vs))

\* line 278: Prefab { path, vars } with the folded overrides in their order
prefab_of(p, vs) ==
    Prefab(p.path, [i \in 1..Len(p.vars) |-> [k |-> p.vars[i].k, v |-> vs[i]]])

\* lines 197-207: Constant::New of the folded prefab and the folded arguments
new_of(t, vs) ==
    LET n == IF t.type_.k = "Prefab" THEN Len(t.type_.prefab.vars) ELSE 0
    IN  ConstNew(IF t.type_.k = "Prefab"
                 THEN NewPrefab(prefab_of(t.type_.prefab, SubSeq(vs, 1, n)))
                 ELSE NewImplicit,
                 IF t.opt_args.some THEN Some(SubSeq(vs, n + 1, Len(vs))) ELSE None)

\* lines 220-233: the pairs (key, Some(value)) and (key, None) pushed to out
RECURSIVE list_of(_, _)
list_of(vec, vs) ==
    IF vec = <<>> THEN <<>>
    ELSE IF Head(vec).val.some
    THEN <<[key |-> vs[1], val |-> Some(vs[2])]>> \o list_of(Tail(vec), Tail(Tail(vs)))
    ELSE <<[key |-> vs[1], val |-> None]>> \o list_of(Tail(vec), Tail(vs))

\* the constant an arm of term builds of what it has folded
constant_of(t, vs) ==
    CASE t.t = "New" -> new_of(t, vs)
      [] t.t = "List" -> ConstList(list_of(t.vec, vs))
      [] t.t = "Call" -> IF t.name = "rgb"
                         THEN ConstString(rgb_result("#", vs))
                         ELSE ConstCall(t.name, vs)
      [] t.t = "Prefab" -> ConstPrefab(prefab_of(t.prefab, vs))
      [] t.t = "Expr" -> vs[1]

\* the arms of term that return before anything is folded
term_early(ty, t, type_hint, ans) ==
    CASE t.t = "Null" -> Some(Val(ConstNull(type_hint), ans))
      [] t.t = "New" /\ t.type_.k = "Ident" -> Some(Fail("non-constant new expression", ""))
      [] t.t = "Call" /\ t.name = "rgb" /\ Len(t.args) # 3 /\ Len(t.args) # 4 ->
            Some(Fail("malformed rgb() call", ""))
      [] t.t = "Call" /\ t.name \notin {"matrix", "newlist", "icon", "rgb"} ->
            Some(Fail("non-constant function call", t.name))
      [] t.t = "Ident" -> Some(ident(ty, t.name, type_hint, FALSE, ans))
      [] t.t = "String" -> Some(Val(ConstString(t.s), ans))
      [] t.t = "Resource" -> Some(Val(ConstResource(t.s), ans))
      [] t.t = "Int" -> Some(Val(ConstInt(t.i), ans))
      [] t.t = "Float" -> Some(Val(ConstFloat(t.f), ans))
      [] OTHER -> None

\* the constant of an arm, of what the arm has folded
term_built(t, folded) ==
    IF folded.o # "val" THEN folded ELSE Val(constant_of(t, folded.v), folded.ans)

\* the arm of term taken: one that returns at once, or one that folds first
term_arm(ty, t, type_hint, ans, early) ==
    IF early.some THEN early.val
    ELSE Let(fold_each(ty, items_of(t, type_hint), ans),
             LAMBDA folded : term_built(t, folded))

\* ConstantFolder::term
term(ty, t, type_hint, ans) ==
    Let(term_early(ty, t, type_hint, ans),
        LAMBDA early : term_arm(ty, t, type_hint, ans, early))

(* What a fold writes to standard output by line 225.  The fold is replayed *)
(* with the lookups answered so far, and stops where the folder stops.      *)

RECURSIVE printed_expr(_, _, _, _)
RECURSIVE printed_each(_, _, _)

\* line 225: println!("WARNING: ident used as list key: {}", ident)
warning(name) == "WARNING: ident used as list key: " \o name

\* the lines of the loop over what a term folds: the warning of an identifier
\* key, the lines of the fold of each expression, up to the first one that fails
printed_head(ty, items, ans, each) ==
    (IF Head(items).ident_key THEN <<warning(Head(items).e.term.s)>> ELSE <<>>)
        \o printed_expr(ty, Head(items).e, Head(items).hint, ans)
        \o (IF each.o = "val" /\ ~(Head(items).int_only /\ each.v.k # "Int")
            THEN printed_each(ty, Tail(items), each.ans)
            ELSE <<>>)

\* the lines of the loop, from its first round on
printed_each(ty, items, ans) ==
    IF items = <<>> THEN <<>>
    ELSE Let(expr(ty, Head(items).e, Head(items).hint, ans),
             LAMBDA each : printed_head(ty, items, ans, each))

\* the lines of self.term(t, type_hint)
printed_term(ty, t, type_hint, ans) ==
    IF term_early(ty, t, type_hint, ans).some THEN <<>>
    ELSE printed_each(ty, items_of(t, type_hint), ans)

\* the lines of self.expr(expression, type_hint)
printed_expr(ty, expression, type_hint, ans) ==
    CASE expression.e = "Base" ->
            printed_term(ty, expression.term,
                         IF expression.follow = <<>> /\ expression.unary = <<>>
                         THEN type_hint ELSE None, ans)
      [] expression.e = "BinaryOp" ->
            printed_each(ty, <<Item(expression.lhs, None, FALSE),
                               Item(expression.rhs, None, FALSE)>>, ans)
      [] OTHER -> <<>>

----------------------------------------------------------------------------
(* The object tree.  A TypeVar is                                          *)
(*   [declaration: Option<VarDeclaration>, expression: Option<Expression>, *)
(*    constant: Option<Constant>, being_evaluated: BOOLEAN]                *)
(* and a VarDeclaration [type_path, is_static, is_const_evaluable].  The   *)
(* Location of a slot is the slot <<ty, name>> itself.                     *)

VarDeclaration(type_path, is_static, is_const) ==
    [type_path |-> type_path, is_static |-> is_static, is_const_evaluable |-> is_const]

TypeVar(declaration, expression) ==
    [declaration |-> declaration, expression |-> expression,
     constant |-> None, being_evaluated |-> FALSE]

\* Type::get_declaration: the declaration of `name` on ty or the nearest ancestor
RECURSIVE get_declaration(_, _, _)
get_declaration(t, ty, name) ==
    IF ty = NoType THEN None
    ELSE IF <<ty, name>> \in DOMAIN t /\ t[<<ty, name>>].declaration.some
    THEN t[<<ty, name>>].declaration
    ELSE get_declaration(t, parent_type(ty), name)

\* VarDeclaration::is_const_evaluable
is_const_evaluable(decl) == decl.is_const_evaluable

\* DMError::new(location, desc)
DMError(location, kind, what) == [location |-> location, kind |-> kind, what |-> what]

(* ConstLookup, and what else a call of constant_ident_lookup can come to. *)
Found(type_path, c) == [r |-> "Found", type_path |-> type_path, c |-> c]
Continue(next) == [r |-> "Continue", next |-> next]
Err(e) == [r |-> "Err", e |-> e]
\* lines 56-57: the flag is set and the initializer goes to the folder
Evaluate(type_hint, expression) == [r |-> "Evaluate", type_hint |-> type_hint, expr |-> expression]

\* found_constant with Option::take in place of clone: the read empties the slot
found_constant_take(t, slot, decl) ==
    [tree |-> [t EXCEPT ![slot].constant = None],
     r |-> Found(decl.type_path, t[slot].constant.val)]

\* found_constant that hands the initializer to the folder again
found_constant_refold(t, slot, decl) ==
    IF t[slot].expression.some
    THEN [tree |-> [t EXCEPT ![slot].being_evaluated = TRUE],
          r |-> Evaluate(decl.type_path, t[slot].expression.val)]
    ELSE [tree |-> t, r |-> Found(decl.type_path, t[slot].constant.val)]

\* lines 45-46: the slot has a constant; a clone of it is returned
found_constant(t, slot, decl) ==
    [tree |-> t, r |-> Found(decl.type_path, t[slot].constant.val)]

\* reentered that also resets the flag it found set
reentered_cleared(t, slot, decl) ==
    [tree |-> [t EXCEPT ![slot].being_evaluated = FALSE],
     r |-> Err(DMError(slot, "recursive constant reference", slot[2]))]

\* reentered without the check of line 49: the initializer is folded again
reentered_ignored(t, slot, decl) ==
    [tree |-> t, r |-> Evaluate(decl.type_path, t[slot].expression.val)]

\* lines 49-50: the slot is re-entered while its own fold is running
reentered(t, slot, decl) ==
    [tree |-> t, r |-> Err(DMError(slot, "recursive constant reference", slot[2]))]

\* begin_evaluation without line 55: the flag is not set
begin_evaluation_unflagged(t, slot, decl) ==
    [tree |-> t, r |-> Evaluate(decl.type_path, t[slot].expression.val)]

\* lines 56-57: the flag is set and the initializer is handed to the folder
begin_evaluation(t, slot, decl) ==
    [tree |-> [t EXCEPT ![slot].being_evaluated = TRUE],
     r |-> Evaluate(decl.type_path, t[slot].expression.val)]

\* null_constant without line 61: the typed null is returned but not kept
null_constant_unstored(t, slot, decl) ==
    [tree |-> t, r |-> Found(decl.type_path, ConstNull(Some(decl.type_path)))]

\* null_constant that leaves the declared type out of the null
null_constant_untyped(t, slot, decl) ==
    [tree |-> [t EXCEPT ![slot].constant = Some(ConstNull(None))],
     r |-> Found(decl.type_path, ConstNull(None))]

\* lines 59-63: no initializer; Null(Some(type_path)) is stored and returned
null_constant(t, slot, decl) ==
    LET c == ConstNull(Some(decl.type_path))
    IN  [tree |-> [t EXCEPT ![slot].constant = Some(c)], r |-> Found(decl.type_path, c)]

\* line 38: no declaration is reachable; the walk is told to stop
no_declaration(t, ty) == [tree |-> t, r |-> Continue(NoType)]

\* no_slot that tells the walk to stop
no_slot_stop(t, ty) == [tree |-> t, r |-> Continue(NoType)]

\* line 44: ty has no slot of its own; the walk is sent to the parent
no_slot(t, ty) == [tree |-> t, r |-> Continue(parent_type(ty))]

\* lines 35-67 of constant_ident_lookup: the new tree and how the call goes on
constant_ident_lookup(t, ty, name, must_be_static) ==
    LET decl == get_declaration(t, ty, name)
        slot == <<ty, name>>
    IN  IF ~decl.some
        THEN no_declaration(t, ty)
        ELSE IF slot \notin DOMAIN t
        THEN no_slot(t, ty)
        ELSE IF t[slot].constant.some
        THEN found_constant(t, slot, decl.val)
        ELSE IF t[slot].expression.some
        THEN IF t[slot].being_evaluated
             THEN reentered(t, slot, decl.val)
             ELSE IF ~is_const_evaluable(decl.val)
             THEN [tree |-> t, r |-> Err(DMError(slot, "non-const variable", name))]
             ELSE IF ~decl.val.is_static /\ must_be_static
             THEN [tree |-> t, r |-> Err(DMError(slot, "non-static variable", name))]
             ELSE begin_evaluation(t, slot, decl.val)
        ELSE null_constant(t, slot, decl.val)

\* store_constant without line 73: the flag stays set
store_constant_keep_flag(t, slot, value) ==
    [t EXCEPT ![slot].constant = Some(value)]

\* store_constant without line 72: the value is returned but not kept
store_constant_flag_only(t, slot, value) ==
    [t EXCEPT ![slot].being_evaluated = FALSE]

\* store_constant that keeps an untyped null in place of the folded value
store_constant_null(t, slot, value) ==
    [t EXCEPT ![slot].constant = Some(ConstNull(None)), ![slot].being_evaluated = FALSE]

\* store_constant writing the value into every slot of that name
store_constant_siblings(t, slot, value) ==
    [s \in DOMAIN t |->
        IF s[2] = slot[2]
        THEN [t[s] EXCEPT !.constant = Some(value), !.being_evaluated = FALSE]
        ELSE t[s]]

\* lines 71-73 of constant_ident_lookup: the folded value goes into the slot
store_constant(t, slot, value) ==
    [t EXCEPT ![slot].constant = Some(value), ![slot].being_evaluated = FALSE]

----------------------------------------------------------------------------
(* The call stack. *)

\* a constant_ident_lookup(ty, ident, _) that is folding its initializer (line 69)
CilFrame(ty, name, type_hint, expression) ==
    [f |-> "cil", ty |-> ty, start |-> ty, ident |-> name, must_be_static |-> FALSE,
     type_hint |-> type_hint, expr |-> Some(expression), ans |-> <<>>]

\* a recursive_lookup(start, ident, must_be_static) whose loop is at node ty
RlFrame(ty, name, must_be_static) ==
    [f |-> "rl", ty |-> ty, start |-> ty, ident |-> name, must_be_static |-> must_be_static,
     type_hint |-> <<>>, expr |-> None, ans |-> <<>>]

Top == stack[Len(stack)]
Pop(n) == SubSeq(stack, 1, Len(stack) - n)

NoArg == [ty |-> NoType, ident |-> "", must_be_static |-> FALSE]
CallArg(ty, name, mbs) == [ty |-> ty, ident |-> name, must_be_static |-> mbs]


\* what evaluate_all came to
ResOk == [r |-> "Ok"]
ResPanic == [r |-> "Panic"]

----------------------------------------------------------------------------
(* The initial trees.  Five slots may be present: /g on the root, a and b  *)
(* on /C, an override of a and a variable c on /C/D.                       *)

Lit(i) == Base(<<>>, TermInt(i), <<>>)
\* list(...) as an initializer; an element key = value, an element key
OfList(vec) == Base(<<>>, TermList(vec), <<>>)
KeyValue(key, val) == [key |-> key, val |-> Some(val)]
KeyOnly(key) == [key |-> key, val |-> None]
Ref(name) == Base(<<>>, TermIdent(name), <<>>)
FieldOf(holder, name) == Base(<<>>, TermIdent(holder), <<FollowField(name)>>)
CallFoo == Base(<<>>, TermCall("foo", <<>>), <<>>)

ConstDecl == Some(VarDeclaration(<<>>, FALSE, TRUE))
StaticConstDecl == Some(VarDeclaration(<<>>, TRUE, TRUE))
PlainDecl == Some(VarDeclaration(<<>>, FALSE, FALSE))

\* var/C/g;  var/static/const/C/D/g = null
OptsG ==
    { None,
      Some(TypeVar(Some(VarDeclaration(<<"C">>, FALSE, FALSE)), None)),
      Some(TypeVar(Some(VarDeclaration(<<"C", "D">>, TRUE, TRUE)), Some(Lit(1)))),
      Some(TypeVar(Some(VarDeclaration(<<"C", "D">>, TRUE, TRUE)),
                   Some(Base(<<>>, TermNull, <<>>)))) }

OptsCa ==
    { None,
      Some(TypeVar(ConstDecl, Some(Ref("b")))),
      Some(TypeVar(ConstDecl, Some(CallFoo))),
      Some(TypeVar(PlainDecl, Some(Lit(1)))),
      Some(TypeVar(StaticConstDecl, Some(Lit(1)))) }
    \cup { Some(TypeVar(ConstDecl, Some(Lit(i)))) : i \in 1..MaxLit }

OptsCb ==
    { None,
      Some(TypeVar(ConstDecl, Some(Lit(1)))),
      Some(TypeVar(ConstDecl, Some(Ref("a")))),
      Some(TypeVar(ConstDecl, Some(BinaryOp("Add", Ref("a"), Lit(1))))),
      Some(TypeVar(StaticConstDecl, None)) }

\* an override: the declaration is the one /C gives a, if it gives one
OptsDa ==
    { None,
      Some(TypeVar(None, Some(Ref("b")))),
      Some(TypeVar(None, Some(Ref("a")))),
      Some(TypeVar(None, Some(FieldOf("g", "a")))) }
    \cup { Some(TypeVar(None, Some(Lit(i)))) : i \in 1..MaxLit }

OptsDc ==
    { None,
      Some(TypeVar(ConstDecl, Some(Ref("a")))),
      Some(TypeVar(ConstDecl, Some(Ref("u")))),
      Some(TypeVar(ConstDecl, Some(CallFoo))),
      Some(TypeVar(ConstDecl, Some(BinaryOp("Add", Ref("a"), Ref("b"))))),
      Some(TypeVar(ConstDecl, Some(FieldOf("g", "a")))),
      Some(TypeVar(ConstDecl, Some(FieldOf("g", "b")))) }

SlotG == <<Root, "g">>
SlotCa == <<TypeC, "a">>
SlotCb == <<TypeC, "b">>
SlotDa == <<TypeD, "a">>
SlotDc == <<TypeD, "c">>
Positions == {SlotG, SlotCa, SlotCb, SlotDa, SlotDc}

MkTree(ch) == [s \in {p \in Positions : ch[p].some} |-> ch[s].val]

Trees ==
    { MkTree([p \in Positions |->
                CASE p = SlotG -> g [] p = SlotCa -> ca [] p = SlotCb -> cb
                  [] p = SlotDa -> da [] p = SlotDc -> dc]) :
        g \in OptsG, ca \in OptsCa, cb \in OptsCb, da \in OptsDa, dc \in OptsDc }

\* the keys of node ty: tree.graph.node_weight(ty).vars.keys()
keys_of(t, ty) == {s[2] : s \in {p \in DOMAIN t : p[1] = ty}}

\* the order of tree.graph.node_indices() and of vars.keys(): a node is recorded
\* as <<ty, "">>, a key of it as <<ty, key>>.  "off": the order is not kept;
\* "rec": seq is the order so far; "play": seq is what is left of a kept order
TrailOff == [mode |-> "off", seq |-> <<>>]
TrailRec == [mode |-> "rec", seq |-> <<>>]

\* the iteration order is a property of the tree: a run over a tree that has been
\* iterated before meets its nodes and keys in the same order
in_order(c) == (trail.mode = "play" /\ trail.seq # <<>>) => Head(trail.seq) = c

visit(c) ==
    CASE trail.mode = "rec" -> [trail EXCEPT !.seq = Append(@, c)]
      [] trail.mode = "play" /\ trail.seq # <<>> -> [trail EXCEPT !.seq = Tail(@)]
      [] OTHER -> trail

\* no call of a folder function on its own
NoJob == [f |-> "none"]

\* standard output: its lines are kept or not
StdoutOff == [capture |-> FALSE, lines |-> <<>>]
StdoutOn == [capture |-> TRUE, lines |-> <<>>]

\* println!: lines are written to standard output
write(lines) == IF stdout.capture THEN [stdout EXCEPT !.lines = @ \o lines] ELSE stdout

\* line 292: println!("searching type #{}", ty.index())
searching(ty) == "searching type #" \o ToString(ty)

\* evaluate_all(tree) is entered
EvaluateAllEntry ==
    /\ stack = <<>>
    /\ pc = "driver"
    /\ arg = NoArg
    /\ res = Continue(NoType)
    /\ tysLeft = node_indices
    /\ curTy = NoType
    /\ keysLeft = {}
    /\ result = None
    /\ folds = [s \in DOMAIN tree |-> 0]
    /\ firstRun = None
    /\ job = NoJob
    /\ out = None

\* no initializer of Trees overflows, so one build stands for both
Init ==
    /\ tree \in Trees
    /\ EvaluateAllEntry
    /\ trail = TrailOff
    /\ overflow_checks = TRUE
    /\ stdout = StdoutOff

----------------------------------------------------------------------------
(* evaluate_all *)

\* line 11-12: the next node, and a snapshot of its keys
EvaluateAllNextType ==
    /\ pc = "driver" /\ keysLeft = {} /\ tysLeft # {}
    /\ \E ty \in tysLeft :
          /\ in_order(<<ty, "">>)
          /\ trail' = visit(<<ty, "">>)
          /\ curTy' = ty
          /\ tysLeft' = tysLeft \ {ty}
          /\ keysLeft' = keys_of(tree, ty)
    /\ UNCHANGED <<tree, stack, pc, arg, res, result, folds, firstRun, fold_vars>>

\* lines 13-18: the next key; a variable that is not const-evaluable is skipped
EvaluateAllNextKey ==
    /\ pc = "driver"
    /\ \E key \in keysLeft :
          /\ in_order(<<curTy, key>>)
          /\ trail' = visit(<<curTy, key>>)
          /\ keysLeft' = keysLeft \ {key}
          /\ LET decl == get_declaration(tree, curTy, key)
             IN  IF decl.some /\ ~is_const_evaluable(decl.val)
                 THEN pc' = "driver" /\ arg' = arg
                 ELSE pc' = "call" /\ arg' = CallArg(curTy, key, FALSE)
    /\ UNCHANGED <<tree, stack, res, tysLeft, curTy, result, folds, firstRun, fold_vars>>

\* line 19: Found
EvaluateAllFound ==
    /\ pc = "ret" /\ stack = <<>> /\ res.r = "Found"
    /\ pc' = "driver"
    /\ UNCHANGED <<tree, stack, arg, res, tysLeft, curTy, keysLeft, result, folds, firstRun, trail, fold_vars>>

\* line 20: Continue is a panic
EvaluateAllPanic ==
    /\ pc = "ret" /\ stack = <<>> /\ res.r = "Continue"
    /\ pc' = "done"
    /\ result' = Some(ResPanic)
    /\ UNCHANGED <<tree, stack, arg, res, tysLeft, curTy, keysLeft, folds, firstRun, trail, fold_vars>>

\* line 18: the `?` returns the first error
EvaluateAllErr ==
    /\ pc = "ret" /\ stack = <<>> /\ res.r = "Err"
    /\ pc' = "done"
    /\ result' = Some(res)
    /\ UNCHANGED <<tree, stack, arg, res, tysLeft, curTy, keysLeft, folds, firstRun, trail, fold_vars>>

\* line 24: Ok(())
EvaluateAllOk ==
    /\ pc = "driver" /\ keysLeft = {} /\ tysLeft = {}
    /\ pc' = "done"
    /\ result' = Some(ResOk)
    /\ UNCHANGED <<tree, stack, arg, res, tysLeft, curTy, keysLeft, folds, firstRun, trail, fold_vars>>

----------------------------------------------------------------------------
(* constant_ident_lookup *)

\* lines 32-67: the call, up to its early return or to the fold of line 69
ConstantIdentLookup ==
    /\ pc = "call" /\ Len(stack) < MaxDepth
    /\ LET c == constant_ident_lookup(tree, arg.ty, arg.ident, arg.must_be_static)
           slot == <<arg.ty, arg.ident>>
       IN  /\ tree' = c.tree
           /\ IF c.r.r = "Evaluate"
              THEN /\ stack' = Append(stack, CilFrame(arg.ty, arg.ident, c.r.type_hint, c.r.expr))
                   /\ folds' = [folds EXCEPT ![slot] = @ + 1]
                   /\ pc' = "fold"
                   /\ res' = res
              ELSE /\ pc' = "ret"
                   /\ res' = c.r
                   /\ UNCHANGED <<stack, folds>>
    /\ arg' = NoArg
    /\ UNCHANGED <<tysLeft, curTy, keysLeft, result, firstRun, trail, fold_vars>>

\* line 69: the fold of the frame on top, from its start or from the lookup that
\* has just returned
Folded ==
    LET f == Top
    IN  expr(f.ty, f.expr.val, IF f.type_hint = <<>> THEN None ELSE Some(f.type_hint), f.ans)

\* the lines of now that come after those of before
printed_since(now, before) == SubSeq(now, Len(before) + 1, Len(now))

\* what the fold on top has written by line 225 since it was entered or resumed:
\* the lines of the replay that the replay before the last answer had not
FoldPrinted ==
    LET f == Top
        hint == IF f.type_hint = <<>> THEN None ELSE Some(f.type_hint)
    IN  printed_since(printed_expr(f.ty, f.expr.val, hint, f.ans),
                      IF f.ans = <<>> THEN <<>>
                      ELSE printed_expr(f.ty, f.expr.val, hint, SubSeq(f.ans, 1, Len(f.ans) - 1)))

\* line 69 into lines 286 and 132: the fold calls recursive_lookup, whose loop
\* is entered (line 292)
FoldLookup ==
    /\ pc = "fold" /\ Folded.o = "need" /\ Len(stack) < MaxDepth
    /\ stack' = Append(stack, RlFrame(Folded.ty, Folded.ident, Folded.must_be_static))
    /\ arg' = CallArg(Folded.ty, Folded.ident, Folded.must_be_static)
    /\ pc' = "call"
    /\ stdout' = write(FoldPrinted \o <<searching(Folded.ty)>>)
    /\ UNCHANGED <<tree, res, tysLeft, curTy, keysLeft, result, folds, firstRun, trail,
                   overflow_checks, job, out>>

\* lines 69-74: the fold gives a value, which is stored and returned
FoldValue ==
    /\ pc = "fold" /\ Folded.o = "val"
    /\ tree' = store_constant(tree, <<Top.ty, Top.ident>>, Folded.v)
    /\ res' = Found(Top.type_hint, Folded.v)
    /\ stack' = Pop(1)
    /\ pc' = "ret"
    /\ stdout' = write(FoldPrinted)
    /\ UNCHANGED <<arg, tysLeft, curTy, keysLeft, result, folds, firstRun, trail,
                   overflow_checks, job, out>>

\* line 69: the fold fails and `?` returns the error
FoldError ==
    /\ pc = "fold" /\ Folded.o = "err"
    /\ res' = Err(DMError(<<Top.ty, Top.ident>>, Folded.kind, Folded.what))
    /\ stack' = Pop(1)
    /\ pc' = "ret"
    /\ stdout' = write(FoldPrinted)
    /\ UNCHANGED <<tree, arg, tysLeft, curTy, keysLeft, result, folds, firstRun, trail,
                   overflow_checks, job, out>>

----------------------------------------------------------------------------
(* ConstantFolder::recursive_lookup: the loop of lines 292-298.  The frame *)
(* below the "rl" frame is the fold that called it; its slot is            *)
(* self.location.                                                          *)

Caller == stack[Len(stack) - 1]

\* line 295: Found(_, v) => return Ok(v)
RecursiveLookupFound ==
    /\ pc = "ret" /\ stack # <<>> /\ res.r = "Found"
    /\ stack' = [Pop(1) EXCEPT ![Len(stack) - 1].ans = Append(@, res.c)]
    /\ pc' = "fold"
    /\ UNCHANGED <<tree, arg, res, tysLeft, curTy, keysLeft, result, folds, firstRun, trail, fold_vars>>

\* next_idx that goes on at the root instead of the parent
next_idx_root(ty, i) == IF i = NoType THEN NoType ELSE Root

\* the node the loop goes on with after Continue(i)
next_idx(ty, i) == i

\* line 296: Continue(i) => idx = i, and the loop goes round again (line 292)
RecursiveLookupContinue ==
    /\ pc = "ret" /\ stack # <<>> /\ res.r = "Continue"
    /\ next_idx(Top.ty, res.next) # NoType
    /\ stack' = [stack EXCEPT ![Len(stack)].ty = next_idx(Top.ty, res.next)]
    /\ arg' = CallArg(next_idx(Top.ty, res.next), Top.ident, Top.must_be_static)
    /\ pc' = "call"
    /\ stdout' = write(<<searching(next_idx(Top.ty, res.next))>>)
    /\ UNCHANGED <<tree, res, tysLeft, curTy, keysLeft, result, folds, firstRun, trail,
                   overflow_checks, job, out>>

\* line 299: the loop ends without a value; the error leaves the fold by `?`
RecursiveLookupUnknown ==
    /\ pc = "ret" /\ stack # <<>> /\ res.r = "Continue"
    /\ next_idx(Top.ty, res.next) = NoType
    /\ res' = Err(DMError(<<Caller.ty, Caller.ident>>, "unknown variable", Top.ident))
    /\ stack' = Pop(2)
    /\ UNCHANGED <<tree, pc, arg, tysLeft, curTy, keysLeft, result, folds, firstRun, trail, fold_vars>>

\* line 294: map_err puts self.location on the error, which leaves the fold by `?`
RecursiveLookupErr ==
    /\ pc = "ret" /\ stack # <<>> /\ res.r = "Err"
    /\ res' = Err(DMError(<<Caller.ty, Caller.ident>>, res.e.kind, res.e.what))
    /\ stack' = Pop(2)
    /\ UNCHANGED <<tree, pc, arg, tysLeft, curTy, keysLeft, result, folds, firstRun, trail, fold_vars>>

----------------------------------------------------------------------------

Next ==
    \/ EvaluateAllNextType
    \/ EvaluateAllNextKey
    \/ EvaluateAllFound
    \/ EvaluateAllPanic
    \/ EvaluateAllErr
    \/ EvaluateAllOk
    \/ ConstantIdentLookup
    \/ FoldLookup
    \/ FoldValue
    \/ FoldError
    \/ RecursiveLookupFound
    \/ RecursiveLookupContinue
    \/ RecursiveLookupUnknown
    \/ RecursiveLookupErr

Spec == Init /\ [][Next]_vars


\* the scheduling of a single thread: a step that can be taken is taken
FairSpec == Spec /\ WF_vars(Next)

\* var/const/C/b = list(k = a, a), = list(a, k = 1), = list(k = 1, k = foo()),
\* var/const/list/C/b = list(k = null)
ListDecls ==
    { TypeVar(ConstDecl, Some(OfList(<<KeyValue(Ref("k"), Ref("a")), KeyOnly(Ref("a"))>>))),
      TypeVar(ConstDecl, Some(OfList(<<KeyOnly(Ref("a")), KeyValue(Ref("k"), Lit(1))>>))),
      TypeVar(ConstDecl, Some(OfList(<<KeyValue(Ref("k"), Lit(1)), KeyValue(Ref("k"), CallFoo)>>))),
      TypeVar(Some(VarDeclaration(<<"list", "C">>, FALSE, TRUE)),
              Some(OfList(<<KeyValue(Ref("k"), Base(<<>>, TermNull, <<>>))>>))) }

\* the trees of at most two slots, and trees with a list literal on /C.b
StdoutTrees ==
    {t \in Trees : Cardinality(DOMAIN t) <= 2}
        \cup {MkTree([p \in Positions |->
                        CASE p = SlotCa -> ca [] p = SlotCb -> Some(cb) [] OTHER -> None]) :
                ca \in OptsCa, cb \in ListDecls}

\* evaluate_all with its standard output kept
InitStdout ==
    /\ tree \in StdoutTrees
    /\ EvaluateAllEntry
    /\ trail = TrailOff
    /\ overflow_checks = TRUE
    /\ stdout = StdoutOn

SpecStdout == InitStdout /\ [][Next]_vars

----------------------------------------------------------------------------
(* A second run of evaluate_all over the same initial tree, in an order of *)
(* its own.  firstRun keeps what the first run came to.                    *)

Constants(t) == [s \in DOMAIN t |-> t[s].constant]

EvaluateAllOtherOrder ==
    /\ pc = "done" /\ ~firstRun.some
    /\ firstRun' = Some([result |-> result.val.r, constants |-> Constants(tree)])
    /\ tree' = [s \in DOMAIN tree |->
                  [tree[s] EXCEPT !.constant = None, !.being_evaluated = FALSE]]
    /\ stack' = <<>>
    /\ pc' = "driver"
    /\ arg' = NoArg
    /\ res' = Continue(NoType)
    /\ tysLeft' = node_indices
    /\ curTy' = NoType
    /\ keysLeft' = {}
    /\ result' = None
    /\ folds' = [s \in DOMAIN tree |-> 0]
    /\ UNCHANGED <<trail, fold_vars>>

NextTwoOrders == Next \/ EvaluateAllOtherOrder

SpecTwoOrders == Init /\ [][NextTwoOrders]_vars

----------------------------------------------------------------------------
(* A second call of evaluate_all on the tree the first call left.  The     *)
(* first call keeps the order it met the nodes and keys in, the second     *)
(* meets them in that order.                                               *)

InitTwice ==
    /\ tree \in Trees
    /\ EvaluateAllEntry
    /\ trail = TrailRec
    /\ overflow_checks = TRUE
    /\ stdout = StdoutOff

EvaluateAllAgain ==
    /\ pc = "done" /\ trail.mode = "rec"
    /\ firstRun' = Some([result |-> result.val.r, constants |-> Constants(tree),
                         tree |-> tree])
    /\ trail' = [mode |-> "play", seq |-> trail.seq]
    /\ stack' = <<>>
    /\ pc' = "driver"
    /\ arg' = NoArg
    /\ res' = Continue(NoType)
    /\ tysLeft' = node_indices
    /\ curTy' = NoType
    /\ keysLeft' = {}
    /\ result' = None
    /\ folds' = [s \in DOMAIN tree |-> 0]
    /\ UNCHANGED <<tree, fold_vars>>

NextTwice == Next \/ EvaluateAllAgain

SpecTwice == InitTwice /\ [][NextTwice]_vars

----------------------------------------------------------------------------
(* Single calls of the folder's functions.  job names the function and its *)
(* arguments, out is what the call returned; evaluate_all is not running.  *)

Job(f, a) == [f |-> f, a |-> a]

\* the terms and followers handed to ConstantFolder::follow, and what the lookup
\* it makes returns (<<>>: the lookup has not returned yet)
FollowTerms ==
    { ConstNull(None), ConstNull(Some(<<"C">>)), ConstNull(Some(<<"C", "D">>)),
      ConstNull(Some(<<"D">>)), ConstNull(Some(<<"X">>)),
      ConstInt(1), ConstString("C"), ConstCall("icon", <<>>) }

FollowJobs ==
    { Job("follow", [termv |-> tv, fol |-> fl, ans |-> a]) :
        tv \in FollowTerms,
        fl \in {FollowField("a"), FollowField("M"), FollowIndex},
        a \in {<<>>, <<ConstInt(4)>>, <<ConstNull(None)>>} }

\* the declarations, initializers and states of a slot that
\* constant_ident_lookup is called on: not yet resolved; its fold running or
\* failed (the flag stays set); Reduced
Decls ==
    { VarDeclaration(tp, st, cn) : tp \in {<<>>, <<"C">>}, st \in BOOLEAN, cn \in BOOLEAN }

SlotStates(declaration, decl, init) ==
    LET v == TypeVar(declaration, init)
    IN  {v}
        \cup (IF init.some /\ is_const_evaluable(decl)
              THEN {[v EXCEPT !.being_evaluated = TRUE]} ELSE {})
        \cup (IF init = Some(Lit(1)) /\ is_const_evaluable(decl)
              THEN {[v EXCEPT !.constant = Some(ConstInt(1))]} ELSE {})
        \cup (IF ~init.some
              THEN {[v EXCEPT !.constant = Some(ConstNull(Some(decl.type_path)))]}
              ELSE {})

\* /C declares a; /C declares a and /C/D overrides it; /C/D gives a value to an a
\* that nothing declares
LookupTrees ==
    { (SlotCa :> v) :
        v \in UNION { SlotStates(Some(d), d, i) :
                        d \in Decls, i \in {None, Some(Lit(1)), Some(CallFoo)} } }
    \cup UNION { { (SlotCa :> TypeVar(Some(d), Some(Lit(1)))) @@ (SlotDa :> v) :
                     v \in SlotStates(None, d, Some(Lit(1))) } :
                   d \in {x \in Decls : x.type_path = <<>>} }
    \cup { (SlotDa :> TypeVar(None, Some(Lit(1)))) }

LookupJobs ==
    { Job("lookup", [tree |-> t, ty |-> ty, ident |-> name, must_be_static |-> mbs]) :
        t \in LookupTrees, ty \in node_indices, name \in {"a", "u"}, mbs \in BOOLEAN }

\* f32 literals: 2.0, 3.0, 0.5, 0.1, 0.0, -1.5
F32Lits ==
    { F32Fin(FALSE, 1, 1), F32Fin(FALSE, 3, 0), F32Fin(FALSE, 1, -1),
      F32Fin(FALSE, 13421773, -27), F32Zero(FALSE), F32Fin(TRUE, 3, -1) }

I32Lits == {0, 1, 2, 3, 7, -1, 16777217, 65536, MaxI32, MinI32}

Operands ==
    {ConstInt(i) : i \in I32Lits} \cup {ConstFloat(f) : f \in F32Lits}
        \cup {ConstString("hi"), ConstString("!"), ConstNull(None)}

NumericOps == {"Add", "Sub", "Mul", "Div"}

BinaryJobs ==
    {Job("binary", [lhs |-> l, rhs |-> r, op |-> op]) :
        l \in Operands, r \in Operands, op \in NumericOps}

BitOps == {"BitOr", "BitAnd", "LShift", "RShift"}

\* operators of BinaryOp that no rule of binary names
OtherOps == {"Or", "And", "BitXor", "Mod", "Pow", "Eq", "Less", "In"}

\* operands of the bit operators: shift amounts below, at and above the width,
\* and one constant of every other kind
BitOperands ==
    {ConstInt(i) : i \in {0, 1, 3, 6, -1, -16, 31, 32, 33, MaxI32, MinI32}}
        \cup { ConstFloat(F32Fin(FALSE, 3, 0)), ConstString("hi"), ConstNull(None),
               ConstNull(Some(<<"C">>)), ConstResource("a.png"), ConstList(<<>>),
               ConstCall("matrix", <<>>), ConstPrefab(Prefab(<<"C">>, <<>>)),
               ConstNew(NewImplicit, None) }

BitJobs ==
    {Job("binary", [lhs |-> l, rhs |-> r, op |-> op]) :
        l \in BitOperands, r \in BitOperands, op \in BitOps \cup OtherOps \cup NumericOps}

UnaryJobs ==
    {Job("unary", [termv |-> v, op |-> op]) :
        v \in Operands \cup BitOperands, op \in {"Neg", "BitNot", "Not", "PreIncr", "PostDecr"}}

Neg1 == Base(<<"Neg">>, TermInt(1), <<>>)
Str(s) == Base(<<>>, TermString(s), <<>>)
Flt(f) == Base(<<>>, TermFloat(f), <<>>)

\* arguments of rgb(): Ints in and out of [0, 255], a sum, and what is no Int
RgbArgs ==
    { Lit(255), Lit(0), Lit(128), Lit(256), Neg1, Lit(10),
      BinaryOp("Add", Lit(255), Lit(1)), Str("x"), Flt(F32Fin(FALSE, 1, -1)),
      Base(<<>>, TermNull, <<>>), Base(<<>>, TermCall("f", <<>>), <<>>) }

RgbArgsFew == {Lit(255), Neg1, Str("x"), Base(<<>>, TermCall("f", <<>>), <<>>)}

RgbCalls ==
    {TermCall("rgb", <<a, b, c>>) : a \in RgbArgs, b \in RgbArgs, c \in RgbArgs}
        \cup {TermCall("rgb", <<a, b, c, d>>) :
                a \in RgbArgsFew, b \in RgbArgsFew, c \in RgbArgsFew, d \in RgbArgsFew}
        \cup {TermCall("rgb", v) :
                v \in {<<>>, <<Lit(0)>>, <<Lit(0), Lit(0)>>,
                       <<Lit(0), Lit(0), Lit(0), Lit(0), Lit(0)>>,
                       <<Str("x"), Lit(0), Lit(0), Lit(0), Lit(0)>>}}

\* 1 + 2 * 3, 1 + 2.0, "hi" + "!"
FoldExamples ==
    { TermExpr(BinaryOp("Add", Lit(1), BinaryOp("Mul", Lit(2), Lit(3)))),
      TermExpr(BinaryOp("Add", Lit(1), Flt(F32Fin(FALSE, 1, 1)))),
      TermExpr(BinaryOp("Add", Str("hi"), Str("!"))) }

TermJobs == {Job("term", [t |-> t]) : t \in RgbCalls \cup FoldExamples}

NullE == Base(<<>>, TermNull, <<>>)
OfTerm(t) == Base(<<>>, t, <<>>)
UnaryOps == {"Neg", "BitNot", "Not"}

\* two unary operators on a literal; g.h.a, -g.a, null.a, -null, (null)
BaseExprs ==
    {Base(<<u1, u2>>, TermInt(i), <<>>) : u1 \in UnaryOps, u2 \in UnaryOps, i \in {0, 1, 5}}
        \cup { Base(<<>>, TermIdent("g"), <<FollowField("h"), FollowField("a")>>),
               Base(<<"Neg">>, TermIdent("g"), <<FollowField("a")>>),
               NullE,
               Base(<<>>, TermNull, <<FollowField("a")>>),
               Base(<<"Neg">>, TermNull, <<>>),
               Ref("null"),
               OfTerm(TermExpr(NullE)),
               OfTerm(TermResource("a.png")) }

\* null as an operand, an argument, a new-argument and a prefab override
NoHintExprs ==
    { BinaryOp("Add", NullE, NullE),
      BinaryOp("Add", Lit(1), Ref("a")),
      AssignOp,
      OfTerm(TermCall("matrix", <<NullE, Lit(1)>>)),
      OfTerm(TermNew(NewImplicit, None)),
      OfTerm(TermNew(NewImplicit, Some(<<NullE, Lit(2)>>))),
      OfTerm(TermNew(NewPrefab(Prefab(<<"C">>, <<[k |-> "x", v |-> NullE]>>)), Some(<<NullE>>))),
      OfTerm(TermNew(NewPrefab(Prefab(<<"C">>, <<[k |-> "x", v |-> CallFoo]>>)), Some(<<NullE>>))),
      OfTerm(TermNew(NewIdent("T"), Some(<<NullE>>))),
      OfTerm(TermPrefab(Prefab(<<"C", "D">>, <<[k |-> "x", v |-> NullE], [k |-> "y", v |-> Lit(2)]>>))),
      OfTerm(TermPrefab(Prefab(<<"C">>, <<>>))) }

\* an element of a list: key = value, or the key alone

\* list(), list("a" = 1, "b" = 2), list(x = null, 3), list(null = null),
\* list(null, null, "s"), list(2 = "t", x = 1, x = 2)
PlainLists ==
    { <<>>,
      <<KeyValue(Str("a"), Lit(1)), KeyValue(Str("b"), Lit(2))>>,
      <<KeyValue(Ref("x"), NullE), KeyOnly(Lit(3))>>,
      <<KeyValue(NullE, NullE)>>,
      <<KeyOnly(NullE), KeyOnly(NullE), KeyOnly(Str("s"))>>,
      <<KeyValue(Lit(2), Str("t")), KeyValue(Ref("x"), Lit(1)), KeyValue(Ref("x"), Lit(2))>> }

\* list(a = b), list(a), list(-a = 1), list(null, a = foo(), b), list(list(null))
OtherLists ==
    { <<KeyValue(Ref("a"), Ref("b"))>>,
      <<KeyOnly(Ref("a"))>>,
      <<KeyValue(Base(<<"Neg">>, TermIdent("a"), <<>>), Lit(1))>>,
      <<KeyOnly(NullE), KeyValue(Ref("a"), CallFoo), KeyOnly(Ref("b"))>>,
      <<KeyOnly(OfTerm(TermList(<<KeyOnly(NullE)>>)))>> }

ListExprs == {OfTerm(TermList(v)) : v \in PlainLists \cup OtherLists}

\* the whitelist, rgb, and names that are not on it
CallNames == {"matrix", "newlist", "icon", "rgb", "foo", "Matrix", "list", "sin"}

DivZero == BinaryOp("Div", Lit(1), Lit(0))

\* no argument; literals; two lookups; a division by zero; a call of foo
CallArgs ==
    { <<>>, <<Lit(1), NullE, Str("s")>>, <<Ref("a"), Ref("b")>>,
      <<DivZero, Ref("a")>>, <<CallFoo, Ref("a")>>, <<Lit(1), Lit(2), Lit(3)>> }

CallExprs == {OfTerm(TermCall(n, v)) : n \in CallNames, v \in CallArgs}

Hints ==
    {None, Some(<<"C">>), Some(<<"list", "C">>), Some(<<"list">>), Some(<<>>),
     Some(<<"list", "list", "C">>)}

\* what the lookups of the fold come to, in the order they are made
Answers ==
    { <<>>, <<ConstNull(Some(<<"C">>))>>, <<ConstInt(5)>>,
      <<ConstNull(Some(<<"C">>)), ConstInt(5)>>,
      <<ConstNull(Some(<<"C">>)), ConstNull(Some(<<"C", "D">>))>> }

ExprJobs ==
    {Job("expr", [e |-> e, hint |-> h, ans |-> a]) :
        e \in BaseExprs \cup NoHintExprs \cup ListExprs \cup CallExprs,
        h \in Hints, a \in Answers}

Jobs ==
    FollowJobs \cup LookupJobs \cup BinaryJobs \cup TermJobs \cup ExprJobs
        \cup BitJobs \cup UnaryJobs

InitFold ==
    /\ job \in Jobs
    /\ out = None
    /\ overflow_checks \in BOOLEAN
    /\ tree = IF job.f = "lookup" THEN job.a.tree ELSE <<>>
    /\ stack = <<>>
    /\ pc = "job"
    /\ arg = NoArg
    /\ res = Continue(NoType)
    /\ tysLeft = {}
    /\ curTy = NoType
    /\ keysLeft = {}
    /\ result = None
    /\ folds = <<>>
    /\ firstRun = None
    /\ trail = TrailOff
    /\ stdout = StdoutOff

\* self.follow(term, follow) of a folder of a variable of /C/D
FollowJob ==
    /\ job.f = "follow" /\ out = None
    /\ out' = Some(follow(TypeD, job.a.termv, job.a.fol, job.a.ans))
    /\ UNCHANGED <<tree, stack, pc, arg, res, tysLeft, curTy, keysLeft, result, folds,
                   firstRun, trail, overflow_checks, job, stdout>>

\* constant_ident_lookup(tree, ty, ident, must_be_static) up to its return or to
\* the fold of line 69 (out is then Evaluate)
LookupJob ==
    /\ job.f = "lookup" /\ out = None
    /\ LET c == constant_ident_lookup(tree, job.a.ty, job.a.ident, job.a.must_be_static)
       IN  tree' = c.tree /\ out' = Some(c.r)
    /\ UNCHANGED <<stack, pc, arg, res, tysLeft, curTy, keysLeft, result, folds,
                   firstRun, trail, overflow_checks, job, stdout>>

\* self.binary(lhs, rhs, op)
BinaryJob ==
    /\ job.f = "binary" /\ out = None
    /\ out' = Some(binary(job.a.lhs, job.a.rhs, job.a.op))
    /\ UNCHANGED <<tree, stack, pc, arg, res, tysLeft, curTy, keysLeft, result, folds,
                   firstRun, trail, overflow_checks, job, stdout>>

\* self.term(term, None) of a folder of a variable of /C/D
TermJob ==
    /\ job.f = "term" /\ out = None
    /\ out' = Some(term(TypeD, job.a.t, None, <<>>))
    /\ UNCHANGED <<tree, stack, pc, arg, res, tysLeft, curTy, keysLeft, result, folds,
                   firstRun, trail, overflow_checks, job, stdout>>

\* self.expr(expression, type_hint) of a folder of a variable of /C/D
ExprJob ==
    /\ job.f = "expr" /\ out = None
    /\ out' = Some(expr(TypeD, job.a.e, job.a.hint, job.a.ans))
    /\ UNCHANGED <<tree, stack, pc, arg, res, tysLeft, curTy, keysLeft, result, folds,
                   firstRun, trail, overflow_checks, job, stdout>>

\* self.unary(term, op)
UnaryJob ==
    /\ job.f = "unary" /\ out = None
    /\ out' = Some(unary(job.a.termv, job.a.op))
    /\ UNCHANGED <<tree, stack, pc, arg, res, tysLeft, curTy, keysLeft, result, folds,
                   firstRun, trail, overflow_checks, job, stdout>>

NextFold ==
    \/ UnaryJob
    \/ FollowJob
    \/ LookupJob
    \/ BinaryJob
    \/ TermJob
    \/ ExprJob

SpecFold == InitFold /\ [][NextFold]_vars

----------------------------------------------------------------------------
(* The reference graph of the initializers, read off the tree alone.       *)

\* the slot recursive_lookup(ty, name, _) stops at: the first node up the chain
\* from ty that has a slot for name, while a declaration of name is in reach
RECURSIVE Resolve(_, _, _)
Resolve(t, ty, name) ==
    IF ty = NoType \/ ~get_declaration(t, ty, name).some THEN {}
    ELSE IF <<ty, name>> \in DOMAIN t THEN {<<ty, name>>}
    ELSE Resolve(t, parent_type(ty), name)

\* the type path of the null a holder slot reduces to, when it reduces to one
HolderPath(t, slot) ==
    LET decl == get_declaration(t, slot[1], slot[2]).val
    IN  IF ~t[slot].expression.some THEN Some(decl.type_path)
        ELSE IF t[slot].expression.val = Base(<<>>, TermNull, <<>>) /\ decl.type_path # <<>>
        THEN Some(decl.type_path)
        ELSE None

\* the slots holder.field refers to
FollowTargets(t, ty, holder, field) ==
    UNION { LET path == HolderPath(t, h)
            IN  IF path.some /\ types_get(path.val).some
                THEN Resolve(t, types_get(path.val).val, field)
                ELSE {}
            : h \in Resolve(t, ty, holder) }

RECURSIVE RefsOfExpr(_, _, _)
RECURSIVE RefsOfTerm(_, _, _)
RECURSIVE RefsOfArgs(_, _, _)

RefsOfExpr(t, ty, e) ==
    CASE e.e = "Base" ->
            RefsOfTerm(t, ty, e.term)
            \cup (IF e.follow # <<>> /\ e.term.t = "Ident" /\ Head(e.follow).f = "Field"
                  THEN FollowTargets(t, ty, e.term.name, Head(e.follow).name)
                  ELSE {})
      [] e.e = "BinaryOp" -> RefsOfExpr(t, ty, e.lhs) \cup RefsOfExpr(t, ty, e.rhs)
      [] OTHER -> {}

RefsOfTerm(t, ty, tm) ==
    CASE tm.t = "Ident" -> IF tm.name = "null" THEN {} ELSE Resolve(t, ty, tm.name)
      [] tm.t = "Expr" -> RefsOfExpr(t, ty, tm.expr)
      [] tm.t = "Call" -> IF tm.name \in {"matrix", "newlist", "icon"}
                          THEN RefsOfArgs(t, ty, tm.args) ELSE {}
      [] OTHER -> {}

RefsOfArgs(t, ty, args) ==
    IF args = <<>> THEN {}
    ELSE RefsOfExpr(t, ty, Head(args)) \cup RefsOfArgs(t, ty, Tail(args))

\* the slots the initializer of `slot` references
Refs(t, slot) ==
    IF t[slot].expression.some THEN RefsOfExpr(t, slot[1], t[slot].expression.val) ELSE {}

RECURSIVE RefsClosure(_, _, _)
RefsClosure(t, S, n) ==
    IF n = 0 THEN S
    ELSE RefsClosure(t, S \cup UNION {Refs(t, u) : u \in S}, n - 1)

\* the participants of reference cycles
CyclicSlots(t) ==
    {s \in DOMAIN t : s \in RefsClosure(t, Refs(t, s), Cardinality(DOMAIN t))}

\* the frames of the resolver calls that are folding
CilSlots == {<<stack[i].ty, stack[i].ident>> : i \in {j \in 1..Len(stack) : stack[j].f = "cil"}}

\* the diagnostics evaluate_all has returned
Reported == IF pc = "done" /\ result.val.r = "Err" THEN {result.val.e} ELSE {}

\* the slots a CyclicReference diagnostic is reported at
ReportedCyclic == {e.location : e \in {d \in Reported : d.kind = "recursive constant reference"}}

IsConstEvaluable(t, slot) ==
    LET decl == get_declaration(t, slot[1], slot[2])
    IN  decl.some /\ is_const_evaluable(decl.val)


----------------------------------------------------------------------------
(* The claims. *)

\* an initializer that folds to a value without looking any variable up
FoldableAlone(t, slot) ==
    /\ t[slot].expression.some
    /\ IsConstEvaluable(t, slot)
    /\ expr(slot[1], t[slot].expression.val, None, <<>>).o = "val"

\* C1: an error raised while resolving one variable does not abort evaluate_all:
\* when the phase has ended with an error, every const-evaluable variable whose
\* initializer folds on its own has been resolved and is Reduced.
C1_ErrorDoesNotAbort ==
    (pc = "done" /\ result.val.r = "Err") =>
        \A s \in DOMAIN tree : FoldableAlone(tree, s) => tree[s].constant.some

\* C2: being_evaluated is cleared on every exit path of the resolver: a slot whose
\* flag is set has a resolver call folding it on the stack; once that call has
\* returned, with a value or an error, the flag is clear.
C2_FlagClearedOnExit ==
    \A s \in DOMAIN tree : tree[s].being_evaluated => s \in CilSlots

\* C3: no slot ever has its constant set and being_evaluated = true at once.
C3_ConstantXorEvaluating ==
    \A s \in DOMAIN tree : ~(tree[s].constant.some /\ tree[s].being_evaluated)

\* a fold has stored its value while the fold of another slot is still running
C3_Witness ==
    \E s, u \in DOMAIN tree :
        /\ folds[s] = 1 /\ tree[s].constant.some
        /\ tree[u].being_evaluated /\ u \in CilSlots

\* C4: once a slot's constant is set, no step clears it or replaces it by another
\* value.
C4_ReducedIsTerminal ==
    [][\A s \in DOMAIN tree :
          tree[s].constant.some => tree'[s].constant = tree[s].constant]_vars

\* /C.b = a has been folded and the driver has visited /C.a as well: the Reduced
\* slot /C.a was resolved at least twice
C4_Witness ==
    /\ pc = "done" /\ result.val.r = "Ok"
    /\ SlotCa \in DOMAIN tree /\ SlotCb \in DOMAIN tree
    /\ tree[SlotCb].expression = Some(Ref("a"))
    /\ tree[SlotCb].constant.some
    /\ tree[SlotCa].constant.some
    /\ folds[SlotCa] = 1

C5_WitnessFailed ==
    /\ pc = "done" /\ result.val.r = "Err"
    /\ \E s, u \in DOMAIN tree :
          /\ s # u /\ u \in Refs(tree, s)
          /\ folds[s] = 1 /\ ~tree[s].constant.some
          /\ folds[u] = 1


\* C6: when const-evaluable initializers form a reference cycle, the set of slots
\* CyclicReference is reported for at the end of the phase is non-empty and holds
\* only participants of a cycle.
C6_CycleReported ==
    ( /\ pc = "done" /\ result.val.r # "Panic"
      /\ CyclicSlots(tree) # {}
      /\ \A s \in CyclicSlots(tree) : IsConstEvaluable(tree, s) )
    => (ReportedCyclic # {} /\ ReportedCyclic \subseteq CyclicSlots(tree))

\* no two resolver calls on the stack fold the same slot
NoSlotTwiceOnStack ==
    \A i, j \in 1..Len(stack) :
        (i < j /\ stack[i].f = "cil" /\ stack[j].f = "cil")
            => <<stack[i].ty, stack[i].ident>> # <<stack[j].ty, stack[j].ident>>

\* C7: evaluate_all terminates on every tree, cyclic initializers included, and
\* the resolver never folds a slot that is already being folded on the stack.
C7_Terminates ==
    [](NoSlotTwiceOnStack /\ Len(stack) <= 2 * Cardinality(DOMAIN tree)) /\ <>(pc = "done")

\* a fold that was started by the fold of another slot has looked up a slot
\* whose fold is still on the stack, and the lookup has failed
C7_Witness ==
    /\ pc = "ret" /\ res.r = "Err" /\ res.e.kind = "recursive constant reference"
    /\ Len(stack) >= 4
    /\ res.e.location \in CilSlots

\* C8: for the two-slot cycle const a = b; const b = a on one class, after
\* evaluate_all both slots have reported CyclicReference and neither has a
\* constant.
C8_BothReportCycle ==
    ( /\ pc = "done"
      /\ DOMAIN tree = {SlotCa, SlotCb}
      /\ tree[SlotCa].expression = Some(Ref("b")) /\ IsConstEvaluable(tree, SlotCa)
      /\ tree[SlotCb].expression = Some(Ref("a")) /\ IsConstEvaluable(tree, SlotCb) )
    => /\ \A s \in {SlotCa, SlotCb} :
            \E e \in Reported :
                /\ e.kind = "recursive constant reference"
                /\ (e.location = s \/ e.what = s[2])
       /\ ~tree[SlotCa].constant.some
       /\ ~tree[SlotCb].constant.some

\* C9: a slot whose initializer references other slots, by identifier or by a
\* field of a typed null, is Reduced only when each of them is Reduced.
C9_ReferencedReducedFirst ==
    \A s \in DOMAIN tree :
        (tree[s].expression.some /\ tree[s].constant.some)
            => \A u \in Refs(tree, s) : tree[u].constant.some

\* /C/D.c = g.b has been folded: it references the holder /g and, through its
\* type path, /C.b
C9_Witness ==
    /\ SlotDc \in DOMAIN tree
    /\ tree[SlotDc].expression = Some(FieldOf("g", "b"))
    /\ tree[SlotDc].constant.some
    /\ Refs(tree, SlotDc) = {SlotG, SlotCb}

\* C10: two runs of evaluate_all over the same initial tree, each visiting the
\* classes and their variables in an order of its own, end with the same
\* constant, or none, in every slot.
C10_OrderIndependent ==
    ( /\ pc = "done" /\ firstRun.some
      /\ result.val.r # "Panic" /\ firstRun.val.result # "Panic" )
    => Constants(tree) = firstRun.val.constants

\* C11: a second run of evaluate_all on the tree a first run left, whether that
\* run ended Ok or with an error, leaves the constant, the expression and the
\* being_evaluated flag of every slot as the first run left them.
C11_SecondRunKeepsTree ==
    trail.mode = "play" => tree = firstRun.val.tree

\* the second run has ended after a first run that failed and left a constant in
\* one slot and the flag set on another
C11_Witness ==
    /\ trail.mode = "play" /\ pc = "done"
    /\ firstRun.val.result = "Err"
    /\ \E s, u \in DOMAIN tree : tree[s].constant.some /\ tree[u].being_evaluated

\* the first node on the parent chain from ty that has a slot of its own for name
RECURSIVE FirstOwner(_, _, _)
FirstOwner(t, ty, name) ==
    IF ty = NoType THEN NoType
    ELSE IF <<ty, name>> \in DOMAIN t THEN ty
    ELSE FirstOwner(t, parent_type(ty), name)

ClassPath == (TypeC :> "/C") @@ (TypeD :> "/C/D")

\* C13: Field(name) on Null(Some(type_hint)) resolves name, with must_be_static =
\* true, on the class whose absolute path is the segments of type_hint joined by
\* slashes, and gives the value that lookup returns; with no class of that path
\* it fails with unknown typepath; any other term or follower fails with
\* non-constant expression followers.
C13_FieldThroughNull ==
    (job.f = "follow" /\ out.some) =>
        LET tv == job.a.termv
            fl == job.a.fol
        IN  IF tv.k = "Null" /\ tv.hint.some /\ fl.f = "Field"
            THEN LET cls == {ty \in DOMAIN ClassPath : ClassPath[ty] = full_path(tv.hint.val)}
                 IN  IF cls = {}
                     THEN out.val.o = "err" /\ out.val.kind = "unknown typepath"
                     ELSE IF job.a.ans = <<>>
                     THEN \E ty \in cls : out.val = Need(ty, fl.name, TRUE)
                     ELSE out.val = Val(Head(job.a.ans), <<>>)
            ELSE out.val.o = "err" /\ out.val.kind = "non-constant expression followers"

\* the field M of a null typed /C, where the lookup of M on /C returned Int(4),
\* is Int(4)
C13_Witness ==
    /\ job = Job("follow", [termv |-> ConstNull(Some(<<"C">>)), fol |-> FollowField("M"),
                             ans |-> <<ConstInt(4)>>])
    /\ out = Some(Val(ConstInt(4), <<>>))

\* the slot a lookup job is called on, when the node has one and a declaration of
\* the name is in reach
JobSlot == <<job.a.ty, job.a.ident>>
JobDecl == get_declaration(job.a.tree, job.a.ty, job.a.ident)
OnSlot == job.f = "lookup" /\ out.some /\ JobSlot \in DOMAIN job.a.tree /\ JobDecl.some

\* C14: a lookup with must_be_static = true (the lookup a field through a typed
\* null makes) of a const variable that is declared per-instance, and that is not
\* being evaluated, fails with non-static variable and writes nothing, whatever
\* the state of the slot.
C14_NonStaticFails ==
    ( /\ OnSlot /\ job.a.must_be_static
      /\ ~JobDecl.val.is_static /\ is_const_evaluable(JobDecl.val)
      /\ ~job.a.tree[JobSlot].being_evaluated )
    => /\ out.val.r = "Err" /\ out.val.e.kind = "non-static variable"
       /\ tree = job.a.tree

\* C15: a lookup of a slot that has no constant, is not being evaluated and
\* whose declaration is not const-evaluable fails with non-const variable and
\* writes nothing, with or without an initializer.
C15_NonConstFails ==
    ( /\ OnSlot
      /\ ~job.a.tree[JobSlot].constant.some /\ ~job.a.tree[JobSlot].being_evaluated
      /\ ~is_const_evaluable(JobDecl.val) )
    => /\ out.val.r = "Err" /\ out.val.e.kind = "non-const variable"
       /\ tree = job.a.tree

\* C16: the first lookup of a slot that has no initializer stores Null with the
\* type path of the declaration in the slot, returns it as Found, leaves the flag
\* of the slot clear and writes nothing else.
C16_NoInitializerIsNull ==
    ( /\ OnSlot
      /\ ~job.a.tree[JobSlot].expression.some /\ ~job.a.tree[JobSlot].constant.some )
    => LET c == ConstNull(Some(JobDecl.val.type_path))
       IN  /\ out.val = Found(JobDecl.val.type_path, c)
           /\ tree = [job.a.tree EXCEPT ![JobSlot].constant = Some(c)]
           /\ ~tree[JobSlot].being_evaluated

\* var/const/C/a with no initializer on /C has been looked up: the slot holds a
\* null typed /C
C16_Witness ==
    /\ OnSlot /\ JobSlot = SlotCa
    /\ job.a.tree[SlotCa] = TypeVar(Some(VarDeclaration(<<"C">>, FALSE, TRUE)), None)
    /\ tree[SlotCa].constant = Some(ConstNull(Some(<<"C">>)))
    /\ out.val.r = "Found"

\* C17: no resolution evaluate_all asks for, of a name that has a slot on the node
\* visited, returns Continue: the panic of the driver is never reached.
C17_DriverNeverSeesContinue ==
    /\ ~(pc = "ret" /\ stack = <<>> /\ res.r = "Continue")
    /\ (pc = "done" => result.val.r # "Panic")

BinL == job.a.lhs
BinR == job.a.rhs
\* a call of binary with one of the four numeric operators has returned
BinDone == job.f = "binary" /\ out.some /\ job.a.op \in {"Add", "Sub", "Mul", "Div"}
BothInt == BinL.k = "Int" /\ BinR.k = "Int"
SomeFloat == BinL.k = "Float" \/ BinR.k = "Float"
BothNumeric == BinL.k \in {"Int", "Float"} /\ BinR.k \in {"Int", "Float"}

\* C18: Add, Sub, Mul and Div on Int and Float operands never fail as non-constant;
\* their result is an Int exactly when both operands are Int and a Float exactly
\* when at least one is a Float, and with a Float operand there always is a result.
\* Add on two Strings is their concatenation.  1 + 2 * 3 is Int(7), 1 + 2.0 is
\* Float(3.0) and "hi" + "!" is String("hi!").
C18_NumericPromotion ==
    /\ (BinDone /\ BothNumeric) =>
          /\ out.val.o # "err"
          /\ out.val.o = "val" =>
                /\ out.val.v.k = "Int" <=> BothInt
                /\ out.val.v.k = "Float" <=> SomeFloat
          /\ SomeFloat => out.val.o = "val"
    /\ (BinDone /\ job.a.op = "Add" /\ BinL.k = "String" /\ BinR.k = "String") =>
          out.val = Val(ConstString(BinL.s \o BinR.s), <<>>)
    /\ (BinDone /\ job.a = [lhs |-> ConstString("hi"), rhs |-> ConstString("!"), op |-> "Add"]) =>
          out.val.v = ConstString("hi!")
    /\ (BinDone /\ job.a = [lhs |-> ConstInt(1), rhs |-> ConstFloat(F32Fin(FALSE, 1, 1)), op |-> "Add"]) =>
          out.val.v = ConstFloat(F32Fin(FALSE, 3, 0))
    /\ (job.f = "term" /\ out.some) =>
          /\ job.a.t = TermExpr(BinaryOp("Add", Lit(1), BinaryOp("Mul", Lit(2), Lit(3))))
                => out.val = Val(ConstInt(7), <<>>)
          /\ job.a.t = TermExpr(BinaryOp("Add", Lit(1), Flt(F32Fin(FALSE, 1, 1))))
                => out.val = Val(ConstFloat(F32Fin(FALSE, 3, 0)), <<>>)
          /\ job.a.t = TermExpr(BinaryOp("Add", Str("hi"), Str("!")))
                => out.val = Val(ConstString("hi!"), <<>>)

C18_Witness ==
    /\ BinDone /\ job.a.op = "Mul"
    /\ BinL = ConstInt(16777217) /\ BinR = ConstFloat(F32Fin(FALSE, 1, -1))
    /\ out.val = Val(ConstFloat(F32Fin(FALSE, 1, 23)), <<>>)

\* C19: Add, Sub, Mul and Div on two Ints with a divisor that is not zero give an
\* Int and neither an error nor a fault, whatever the operands.
C19_IntOverflowWraps ==
    (BinDone /\ BothInt /\ ~(job.a.op = "Div" /\ BinR.i = 0)) =>
        out.val.o = "val" /\ out.val.v.k = "Int"

RgbDone == job.f = "term" /\ out.some /\ job.a.t.t = "Call" /\ job.a.t.name = "rgb"
RgbArity == Len(job.a.t.args) \in {3, 4}
\* what argument i folds to on its own
RgbArg(i) == expr(TypeD, job.a.t.args[i], None, <<>>)
RgbIsInt(i) == RgbArg(i).o = "val" /\ RgbArg(i).v.k = "Int"
RgbNonInt(i) == RgbArg(i).o = "val" /\ RgbArg(i).v.k # "Int"
Malformed == Fail("malformed rgb() call", "")
Clamp255(i) == IF i < 0 THEN 0 ELSE IF i > 255 THEN 255 ELSE i
TwoHex(n) == HexDigits[(n \div 16) + 1] \o HexDigits[(n % 16) + 1]

RECURSIVE RgbString(_)
RgbString(n) ==
    IF n = 0 THEN "#" ELSE RgbString(n - 1) \o TwoHex(Clamp255(RgbArg(n).v.i))

\* C20 as stated: an rgb() call with 3 or 4 arguments one of which folds to a value
\* that is no Int fails with malformed rgb() call.
C20_AnyNonIntIsMalformed ==
    (RgbDone /\ RgbArity /\ \E i \in 1..Len(job.a.t.args) : RgbNonInt(i))
        => out.val = Malformed

\* C20: rgb() with a number of arguments other than 3 or 4 fails with malformed
\* rgb() call.  With 3 or 4 arguments that all fold to Ints it folds to the String
\* of "#" and, per argument in order, the two lowercase hexadecimal digits of the
\* Int clamped to [0, 255]: rgb(255, 0, 128) is "#ff0080", rgb(256, -1, 0) is
\* "#ff0000".  Otherwise the first argument that does not fold to an Int decides:
\* if it folds to another value the call fails with malformed rgb() call, and if its
\* fold fails the call ends with that failure.
C20_RgbFolds ==
    RgbDone =>
        LET args == job.a.t.args
            n == Len(args)
            bad == {i \in 1..n : ~RgbIsInt(i)}
            first == CHOOSE i \in bad : \A j \in bad : i <= j
        IN  /\ ~RgbArity => out.val = Malformed
            /\ (RgbArity /\ bad = {}) => out.val = Val(ConstString(RgbString(n)), <<>>)
            /\ (RgbArity /\ bad # {} /\ RgbNonInt(first)) => out.val = Malformed
            /\ (RgbArity /\ bad # {} /\ ~RgbNonInt(first)) => out.val = RgbArg(first)
            /\ args = <<Lit(255), Lit(0), Lit(128)>> => out.val.v = ConstString("#ff0080")
            /\ args = <<Lit(256), Neg1, Lit(0)>> => out.val.v = ConstString("#ff0000")

C20_Witness ==
    /\ RgbDone /\ job.a.t.args = <<Lit(256), Neg1, Lit(0)>>
    /\ out.val = Val(ConstString("#ff0000"), <<>>)

LookupDone == job.f = "lookup" /\ out.some

\* C22 as stated: a lookup on a node from which no declaration of the name is
\* reachable, or that has no slot of its own for the name, returns Continue with the
\* parent of the node, which is absent only for the root.
C22_ContinueToParent ==
    (LookupDone /\ (~JobDecl.some \/ JobSlot \notin DOMAIN job.a.tree)) =>
        /\ out.val = Continue(parent_type(job.a.ty))
        /\ out.val.next = NoType => job.a.ty = Root

\* C22: a lookup on a node from which no declaration of the name is reachable
\* returns Continue with no target, whatever the node, its slots and its parent.  A
\* lookup on a node that can reach a declaration but has no slot of its own returns
\* Continue with the parent of the node, which is never absent.  Neither writes to
\* the tree, and in no other case is Continue returned.
C22_ContinueTargets ==
    LookupDone =>
        /\ ~JobDecl.some => out.val = Continue(NoType) /\ tree = job.a.tree
        /\ (JobDecl.some /\ JobSlot \notin DOMAIN job.a.tree) =>
              /\ out.val = Continue(parent_type(job.a.ty))
              /\ out.val.next \in node_indices
              /\ tree = job.a.tree
        /\ out.val.r = "Continue" => (~JobDecl.some \/ JobSlot \notin DOMAIN job.a.tree)

C22_Witness ==
    /\ LookupDone /\ job.a.ty = TypeD /\ job.a.ident = "a"
    /\ DOMAIN job.a.tree = {SlotCa}
    /\ out.val = Continue(TypeC)

\* C23: a lookup of a slot that holds a constant returns Found with the type path
\* of the declaration and that constant, whatever the initializer, the flag, the
\* declaration and must_be_static are; the tree after the call is the tree before
\* it and no initializer is handed to the folder.
C23_ReducedSlotIsRead ==
    (OnSlot /\ job.a.tree[JobSlot].constant.some) =>
        /\ out.val = Found(JobDecl.val.type_path, job.a.tree[JobSlot].constant.val)
        /\ tree = job.a.tree

C23_Witness ==
    /\ OnSlot /\ JobSlot = SlotCa
    /\ job.a.tree[SlotCa].constant = Some(ConstInt(1))
    /\ job.a.tree[SlotCa].expression.some
    /\ JobDecl.val.type_path = <<"C">>
    /\ out.val = Found(<<"C">>, ConstInt(1))
    /\ tree = job.a.tree

----------------------------------------------------------------------------
(* The frame of a resolution. *)

\* the slot the driver asked for: the bottom call of the stack (line 16)
Requested ==
    IF stack # <<>> THEN <<stack[1].ty, stack[1].ident>>
    ELSE <<arg.ty, arg.ident>>

\* the requested slot and every slot its initializer reaches
Reachable == RefsClosure(tree, {Requested}, Cardinality(DOMAIN tree))

\* C24: a resolution of (ty, name) writes only the slot (ty, name) and the
\* slots its initializer transitively references; every other slot keeps its
\* constant, expression and flag, and no step changes the set of slots, a
\* declaration or an initializer.
C24_WritesOnlyReferenced ==
    [][/\ DOMAIN tree' = DOMAIN tree
       /\ \A s \in DOMAIN tree :
            /\ tree'[s].expression = tree[s].expression
            /\ tree'[s].declaration = tree[s].declaration
            /\ tree'[s] # tree[s] => s \in Reachable]_vars

\* /D.c = g.b has been resolved through /g and /C.b while the non-const /C.a,
\* which it does not reference, was never touched
C24_Witness ==
    /\ pc = "ret" /\ stack = <<>> /\ res.r = "Found"
    /\ curTy = TypeD /\ "c" \notin keysLeft
    /\ {SlotG, SlotCa, SlotCb, SlotDc} \subseteq DOMAIN tree
    /\ tree[SlotDc].expression = Some(FieldOf("g", "b"))
    /\ tree[SlotDc].constant.some /\ tree[SlotCb].constant.some
    /\ tree[SlotG].constant.some
    /\ SlotCa \notin RefsClosure(tree, {SlotDc}, Cardinality(DOMAIN tree))
    /\ ~tree[SlotCa].constant.some /\ ~tree[SlotCa].being_evaluated
    /\ folds[SlotCa] = 0

----------------------------------------------------------------------------
(* What the driver asks for. *)

\* the slot's declaration is reachable and is not const-evaluable
NotConstEvaluable(slot) ==
    LET decl == get_declaration(tree, slot[1], slot[2])
    IN  decl.some /\ ~is_const_evaluable(decl.val)

\* no initializer of another slot refers to the slot
Unreferenced(slot) == \A q \in DOMAIN tree \ {slot} : slot \notin Refs(tree, q)

\* evaluate_all never touches a slot that is not const-evaluable and unreferenced
SkippedUntouched ==
    \A s \in DOMAIN tree :
        (NotConstEvaluable(s) /\ Unreferenced(s)) =>
            /\ ~tree[s].constant.some
            /\ ~tree[s].being_evaluated
            /\ folds[s] = 0

\* C25: the driver requests resolution only for a variable whose declaration is
\* const-evaluable, and a slot that is not const-evaluable and that no
\* initializer references is left as it was by evaluate_all.
C25_OnlyConstEvaluableRequested ==
    /\ (pc = "call" /\ stack = <<>>) => IsConstEvaluable(tree, <<arg.ty, arg.ident>>)
    /\ SkippedUntouched

----------------------------------------------------------------------------
(* The order of a Base expression and the way of the type hint. *)

ExprDone == job.f = "expr" /\ out.some
NullC == ConstNull(Some(<<"C">>))
NullCD == ConstNull(Some(<<"C", "D">>))

\* op2 is applied to the literal first, op1 to what it gives
UnaryInnermostFirst(i, op1, op2, ans) ==
    LET first == unary(ConstInt(i), op2)
    IN  IF first.o # "val" THEN out.val = first
        ELSE LET second == unary(first.v, op1)
             IN  IF second.o # "val" THEN out.val = second
                 ELSE out.val = Val(second.v, ans)

\* g.h.a asks for g, then for h on the type of g, then for a on the type of g.h
FollowsLeftToRight(ans) ==
    /\ ans = <<>> => out.val = Need(TypeD, "g", FALSE)
    /\ ans = <<NullC>> => out.val = Need(TypeC, "h", TRUE)
    /\ ans = <<NullC, NullCD>> => out.val = Need(TypeD, "a", TRUE)
    /\ ans \in {<<ConstInt(5)>>, <<NullC, ConstInt(5)>>} =>
            out.val = Fail("non-constant expression followers", "Field")

\* -g.a is -(g.a): the field is looked up on g, the sign applies to the field
FollowsBeforeUnary(ans) ==
    /\ ans = <<>> => out.val = Need(TypeD, "g", FALSE)
    /\ ans = <<NullC>> => out.val = Need(TypeC, "a", TRUE)
    /\ ans = <<NullC, ConstInt(5)>> => out.val = Val(ConstInt(-5), <<>>)
    /\ ans = <<NullC, NullCD>> => out.val = Fail("non-constant unary operation", "Neg")
    /\ ans = <<ConstInt(5)>> => out.val = Fail("non-constant expression followers", "Field")

\* a null with no unary operator and no follow takes the hint of the caller;
\* with a follow or a unary operator it is a null of no type
HintOnlyToBareTerm(e, hint, ans) ==
    /\ e \in {NullE, Ref("null"), OfTerm(TermExpr(NullE))} => out.val = Val(ConstNull(hint), ans)
    /\ e = Base(<<>>, TermNull, <<FollowField("a")>>) =>
            out.val = Fail("non-constant expression followers", "Field")
    /\ e = Base(<<"Neg">>, TermNull, <<>>) =>
            out.val = Fail("non-constant unary operation", "Neg")

\* a null operand, argument, new-argument or override is Null(None)
NoHintBelow(e, ans) ==
    /\ e = BinaryOp("Add", NullE, NullE) => out.val = Fail("non-constant binary operation", "Add")
    /\ e = OfTerm(TermCall("matrix", <<NullE, Lit(1)>>)) =>
            out.val = Val(ConstCall("matrix", <<ConstNull(None), ConstInt(1)>>), ans)
    /\ e = OfTerm(TermNew(NewImplicit, Some(<<NullE, Lit(2)>>))) =>
            out.val = Val(ConstNew(NewImplicit, Some(<<ConstNull(None), ConstInt(2)>>)), ans)
    /\ e = OfTerm(TermNew(NewPrefab(Prefab(<<"C">>, <<[k |-> "x", v |-> NullE]>>)), Some(<<NullE>>))) =>
            out.val = Val(ConstNew(NewPrefab(Prefab(<<"C">>, <<[k |-> "x", v |-> ConstNull(None)]>>)),
                                   Some(<<ConstNull(None)>>)), ans)
    /\ e = OfTerm(TermPrefab(Prefab(<<"C", "D">>, <<[k |-> "x", v |-> NullE], [k |-> "y", v |-> Lit(2)]>>))) =>
            out.val = Val(ConstPrefab(Prefab(<<"C", "D">>,
                            <<[k |-> "x", v |-> ConstNull(None)], [k |-> "y", v |-> ConstInt(2)]>>)), ans)

\* C26: folding Base{unary, term, follow} applies the follows left to right to
\* the folded term and then the unary operators right to left; the caller's
\* hint reaches the term only when follow and unary are both empty; operands
\* of a BinaryOp, call arguments, new-arguments and prefab overrides are folded
\* with no hint, so a null there reduces to Null with no type hint.
C26_FoldOrderAndHints ==
    ExprDone =>
        /\ (/\ job.a.e.e = "Base" /\ job.a.e.term.t = "Int"
            /\ Len(job.a.e.unary) = 2 /\ job.a.e.follow = <<>>) =>
                UnaryInnermostFirst(job.a.e.term.i, job.a.e.unary[1], job.a.e.unary[2], job.a.ans)
        /\ job.a.e = Base(<<>>, TermIdent("g"), <<FollowField("h"), FollowField("a")>>) =>
                FollowsLeftToRight(job.a.ans)
        /\ job.a.e = Base(<<"Neg">>, TermIdent("g"), <<FollowField("a")>>) =>
                FollowsBeforeUnary(job.a.ans)
        /\ HintOnlyToBareTerm(job.a.e, job.a.hint, job.a.ans)
        /\ NoHintBelow(job.a.e, job.a.ans)

\* -g.a with g a null typed /C and a = 5 has folded to -5 under a hint
C26_Witness ==
    /\ ExprDone
    /\ job.a.e = Base(<<"Neg">>, TermIdent("g"), <<FollowField("a")>>)
    /\ job.a.hint = Some(<<"C">>)
    /\ job.a.ans = <<NullC, ConstInt(5)>>
    /\ out.val = Val(ConstInt(-5), <<>>)

----------------------------------------------------------------------------
(* List literals. *)

ListDone == ExprDone /\ job.a.e.e = "Base" /\ job.a.e.term.t = "List"
ListVec == job.a.e.term.vec

\* the type hint minus its leading list segment
ElementHint(hint) ==
    IF hint.some /\ Len(hint.val) >= 1 /\ hint.val[1] = "list"
    THEN Some(SubSeq(hint.val, 2, Len(hint.val)))
    ELSE None

\* what a literal or a null reduces to under the hint
Reduced(e, hint) ==
    CASE e.term.t = "Null" -> ConstNull(hint)
      [] e.term.t = "Int" -> ConstInt(e.term.i)
      [] e.term.t = "String" -> ConstString(e.term.s)

\* the entry of an element: a bare identifier key is its name
Entry(each, hint) ==
    [key |-> IF each.val.some /\ each.key.term.t = "Ident"
             THEN ConstString(each.key.term.name)
             ELSE Reduced(each.key, hint),
     val |-> IF each.val.some THEN Some(Reduced(each.val.val, hint)) ELSE None]

\* C27: a list literal folds to a List with one entry per element in source
\* order; the element hint is the type hint minus its leading list segment, none
\* when the hint does not start with list; of an element with a value a bare
\* identifier key becomes String(identifier) with no lookup and any other key
\* is folded as a term with the element hint; of an element without a value
\* the key is folded as an expression and the value is absent.
C27_ListFolds ==
    ListDone =>
        /\ ListVec \in PlainLists =>
                out.val = Val(ConstList([i \in 1..Len(ListVec) |->
                                Entry(ListVec[i], ElementHint(job.a.hint))]), job.a.ans)
        /\ ListVec = <<KeyValue(Ref("a"), Ref("b"))>> =>
                IF job.a.ans = <<>> THEN out.val = Need(TypeD, "b", FALSE)
                ELSE out.val = Val(ConstList(<<[key |-> ConstString("a"),
                                                val |-> Some(Head(job.a.ans))]>>), Tail(job.a.ans))
        /\ ListVec = <<KeyOnly(Ref("a"))>> =>
                IF job.a.ans = <<>> THEN out.val = Need(TypeD, "a", FALSE)
                ELSE out.val = Val(ConstList(<<[key |-> Head(job.a.ans), val |-> None]>>),
                                   Tail(job.a.ans))
        /\ ListVec = <<KeyValue(Base(<<"Neg">>, TermIdent("a"), <<>>), Lit(1))>> =>
                /\ job.a.ans = <<>> => out.val = Need(TypeD, "a", FALSE)
                /\ job.a.ans = <<ConstInt(5)>> =>
                        out.val = Val(ConstList(<<[key |-> ConstInt(-5), val |-> Some(ConstInt(1))]>>), <<>>)
        /\ ListVec = <<KeyOnly(NullE), KeyValue(Ref("a"), CallFoo), KeyOnly(Ref("b"))>> =>
                out.val = Fail("non-constant function call", "foo")
        /\ ListVec = <<KeyOnly(OfTerm(TermList(<<KeyOnly(NullE)>>)))>> =>
                out.val = Val(ConstList(<<[key |-> ConstList(<<[key |->
                                ConstNull(ElementHint(ElementHint(job.a.hint))), val |-> None]>>),
                              val |-> None]>>), job.a.ans)

\* list(x = null, 3) under the hint list/C: x is the String "x", the null is a
\* null of type /C, 3 stands alone
C27_Witness ==
    /\ ListDone
    /\ ListVec = <<KeyValue(Ref("x"), NullE), KeyOnly(Lit(3))>>
    /\ job.a.hint = Some(<<"list", "C">>)
    /\ job.a.ans = <<>>
    /\ out.val = Val(ConstList(<<[key |-> ConstString("x"), val |-> Some(NullC)],
                                 [key |-> ConstInt(3), val |-> None]>>), <<>>)

----------------------------------------------------------------------------
(* The domains of the operators. *)

BinaryDone == job.f = "binary" /\ out.some
UnaryDone == job.f = "unary" /\ out.some
Kinds(a, b) == job.a.lhs.k \in a /\ job.a.rhs.k \in b

\* the (op, lhs kind, rhs kind) a rule of binary is written for
Covered ==
    \/ job.a.op \in NumericOps /\ Kinds({"Int", "Float"}, {"Int", "Float"})
    \/ job.a.op \in BitOps /\ Kinds({"Int"}, {"Int"})
    \/ job.a.op = "Add" /\ Kinds({"String"}, {"String"})

\* the (op, operand kind) a rule of unary is written for
UnaryCovered ==
    \/ job.a.op = "Neg" /\ job.a.termv.k \in {"Int", "Float"}
    \/ job.a.op \in {"BitNot", "Not"} /\ job.a.termv.k = "Int"

\* C28: BitOr, BitAnd, LShift and RShift succeed only on (Int, Int); Or and every
\* other (op, lhs kind, rhs kind) that the numeric, bit and String-Add rules do
\* not cover fails with non-constant binary operation; Neg succeeds only on Int
\* and Float, BitNot and Not only on Int, and any other unary operand fails with
\* non-constant unary operation.  Inside the rules no such failure is returned.
C28_OutsideDomainFails ==
    /\ BinaryDone =>
          /\ ~Covered => out.val = Fail("non-constant binary operation", job.a.op)
          /\ Covered => out.val.o # "err"
          /\ (job.a.op \in BitOps /\ out.val.o = "val") =>
                Kinds({"Int"}, {"Int"}) /\ out.val.v.k = "Int"
    /\ UnaryDone =>
          /\ ~UnaryCovered => out.val = Fail("non-constant unary operation", job.a.op)
          /\ UnaryCovered => out.val.o # "err"
          /\ out.val.o = "val" => out.val.v.k = job.a.termv.k

\* 6 | 3.0 has failed
C28_Witness ==
    /\ BinaryDone
    /\ job.a = [lhs |-> ConstInt(6), rhs |-> ConstFloat(F32Fin(FALSE, 3, 0)), op |-> "BitOr"]
    /\ out.val = Fail("non-constant binary operation", "BitOr")

\* 6 | 3 = 7, 6 & 3 = 2, 3 << 31 = MinI32, -16 >> 3 = -2, !null has failed
BitExamples ==
    /\ (BinaryDone /\ job.a.lhs = ConstInt(6) /\ job.a.rhs = ConstInt(3)) =>
          /\ job.a.op = "BitOr" => out.val = Val(ConstInt(7), <<>>)
          /\ job.a.op = "BitAnd" => out.val = Val(ConstInt(2), <<>>)
          /\ job.a.op = "LShift" => out.val = Val(ConstInt(48), <<>>)
          /\ job.a.op = "RShift" => out.val = Val(ConstInt(0), <<>>)
    /\ (BinaryDone /\ job.a = [lhs |-> ConstInt(3), rhs |-> ConstInt(31), op |-> "LShift"]) =>
          out.val = Val(ConstInt(MinI32), <<>>)
    /\ (BinaryDone /\ job.a = [lhs |-> ConstInt(-16), rhs |-> ConstInt(3), op |-> "RShift"]) =>
          out.val = Val(ConstInt(-2), <<>>)
    /\ (BinaryDone /\ job.a = [lhs |-> ConstInt(1), rhs |-> ConstInt(33), op |-> "LShift"]) =>
          out.val = IF overflow_checks THEN Fault ELSE Val(ConstInt(2), <<>>)

----------------------------------------------------------------------------
(* Calls. *)

CallDone == ExprDone /\ job.a.e \in CallExprs
CallName == job.a.e.term.name
CallArgv == job.a.e.term.args
Residual == CallName \in {"matrix", "newlist", "icon"}

\* the arguments of a residual call are reduced first to last
ArgsInOrder ==
    /\ CallArgv = <<>> => out.val = Val(ConstCall(CallName, <<>>), job.a.ans)
    /\ CallArgv = <<Lit(1), NullE, Str("s")>> =>
            out.val = Val(ConstCall(CallName, <<ConstInt(1), ConstNull(None), ConstString("s")>>),
                          job.a.ans)
    /\ CallArgv = <<Ref("a"), Ref("b")>> =>
            CASE Len(job.a.ans) = 0 -> out.val = Need(TypeD, "a", FALSE)
              [] Len(job.a.ans) = 1 -> out.val = Need(TypeD, "b", FALSE)
              [] OTHER -> out.val = Val(ConstCall(CallName, job.a.ans), <<>>)
    /\ CallArgv = <<DivZero, Ref("a")>> => out.val = Fault
    /\ CallArgv = <<CallFoo, Ref("a")>> => out.val = Fail("non-constant function call", "foo")

\* C29: a call folds to the residual Call(fn, folded args) exactly for matrix,
\* newlist and icon, the arguments reduced in order; rgb collapses to a String;
\* a call of any other name fails with non-constant function call, and none
\* of its arguments is folded: no lookup is asked for, no fault is met.
C29_CallsFold ==
    CallDone =>
        /\ Residual => ArgsInOrder
        /\ (out.val.o = "val" /\ out.val.v.k = "Call") =>
                Residual /\ out.val.v.fn = CallName
        /\ CallName = "rgb" =>
                /\ out.val.o = "val" => out.val.v.k = "String"
                /\ CallArgv = <<Lit(1), Lit(2), Lit(3)>> =>
                        out.val = Val(ConstString("#010203"), job.a.ans)
        /\ (~Residual /\ CallName # "rgb") =>
                out.val = Fail("non-constant function call", CallName)

\* icon(a, b) has folded to the call of icon on what a and b reduce to
C29_Witness ==
    /\ CallDone /\ CallName = "icon"
    /\ CallArgv = <<Ref("a"), Ref("b")>>
    /\ job.a.ans = <<NullC, ConstInt(5)>>
    /\ out.val = Val(ConstCall("icon", <<NullC, ConstInt(5)>>), <<>>)

----------------------------------------------------------------------------
(* The flags and the stack. *)

\* no resolution has returned an error and no panic has ended the run
NoFailure == res.r # "Err" /\ (pc = "done" => result.val.r = "Ok")

Flagged == {s \in DOMAIN tree : tree[s].being_evaluated}

\* C30: while no fold has failed, the slots with being_evaluated = true are
\* exactly the slots whose resolution is in progress on the call stack; when
\* evaluate_all returns Ok no slot has being_evaluated = true.
C30_FlagsAreTheStack ==
    NoFailure =>
        /\ Flagged = CilSlots
        /\ pc = "done" => Flagged = {}

\* two resolutions are in progress, one started by the fold of the other, and
\* their two slots are the flagged ones
C30_Witness ==
    /\ NoFailure
    /\ Cardinality(CilSlots) = 2
    /\ Flagged = CilSlots
    /\ pc = "fold"

----------------------------------------------------------------------------
(* What a run writes. *)

\* the identifier keys of the list literal a slot is initialized with
IdentKeys(s) ==
    IF tree[s].expression.some /\ tree[s].expression.val.e = "Base"
       /\ tree[s].expression.val.term.t = "List"
    THEN LET vec == tree[s].expression.val.term.vec
         IN  {vec[i].key.term.name :
                i \in {j \in 1..Len(vec) : vec[j].val.some /\ vec[j].key.term.t = "Ident"}}
    ELSE {}

\* C21: during a fold the only outputs are the returned value, the tree writes
\* and the diagnostics delivered through the sink: nothing is written to
\* standard output, and once evaluate_all has returned, the warning for every
\* identifier key of a list that was folded is among the diagnostics returned.
C21_OnlyTheSink ==
    /\ stdout.lines = <<>>
    /\ pc = "done" =>
          \A s \in DOMAIN tree : \A k \in IdentKeys(s) :
              folds[s] > 0 =>
                  \E d \in Reported : d.kind = "ident used as list key" /\ d.what = k

\* what is written is a line of line 292 or of line 225
StdoutLines ==
    \A i \in 1..Len(stdout.lines) :
        \/ \E ty \in node_indices : stdout.lines[i] = searching(ty)
        \/ stdout.lines[i] = warning("k")

\* /C.b = list(k = a, a) with /C.a = 1 has been folded: the warning for k, the
\* two lookups of a, and nothing but Ok returned
StdoutExample ==
    /\ pc = "done" /\ result.val.r = "Ok"
    /\ DOMAIN tree = {SlotCa, SlotCb}
    /\ tree[SlotCb].expression = Some(OfList(<<KeyValue(Ref("k"), Ref("a")), KeyOnly(Ref("a"))>>))
    /\ tree[SlotCb].constant = Some(ConstList(<<[key |-> ConstString("k"), val |-> Some(ConstInt(1))],
                                                 [key |-> ConstInt(1), val |-> None]>>))
    /\ \E i \in 1..Len(stdout.lines) : stdout.lines[i] = warning("k")
    /\ \E i \in 1..Len(stdout.lines) : stdout.lines[i] = searching(TypeC)

-----------------------------------------------------------------------------
(* What a run that returns Ok leaves in the tree. *)

\* what recursive_lookup(ty, name, _) reads in tree t once the slot its walk
\* stops at holds a constant (lines 45-46, 295)
LookupUnder(t, ty, name) ==
    LET own == Resolve(t, ty, name)
    IN  IF own = {} THEN None ELSE t[CHOOSE s \in own : TRUE].constant

\* the fold of expression e on class ty with every lookup answered from tree t
RECURSIVE FoldUnder(_, _, _, _, _)
FoldUnder(t, ty, e, hint, ans) ==
    Let(expr(ty, e, hint, ans),
        LAMBDA r :
            IF r.o # "need" THEN r
            ELSE Let(LookupUnder(t, r.ty, r.ident),
                     LAMBDA c : IF c.some
                                THEN FoldUnder(t, ty, e, hint, Append(ans, c.val))
                                ELSE Fail("unknown variable", r.ident)))

\* the constant of a slot of tree t as lines 56-63 and 69 define it: the fold of
\* its initializer with the declared type path as hint, or the typed null of a
\* slot without initializer
ConstantUnder(t, slot) ==
    LET decl == get_declaration(t, slot[1], slot[2]).val
    IN  IF t[slot].expression.some
        THEN FoldUnder(t, slot[1], t[slot].expression.val,
                       IF decl.type_path = <<>> THEN None ELSE Some(decl.type_path), <<>>)
        ELSE Val(ConstNull(Some(decl.type_path)), <<>>)

\* C31: when evaluate_all returns Ok, every slot, on every class, whose name has
\* a reachable const-evaluable declaration has a constant stored, and that
\* constant equals the fold of the slot's initializer, which no step has
\* changed, under the final tree (the typed null for a slot without one).
C31_OkLeavesEverySlotFolded ==
    (pc = "done" /\ result.val.r = "Ok") =>
        \A s \in DOMAIN tree :
            IsConstEvaluable(tree, s) =>
                /\ tree[s].constant.some
                /\ ConstantUnder(tree, s).o = "val"
                /\ tree[s].constant.val = ConstantUnder(tree, s).v

\* evaluate_all has returned Ok on const a = 1, const b = a + 1 on /C and the
\* override a = b, const c = a + b on /C/D: c holds 4, folded from the override
\* of a (2) and from b (2)
C31_Witness ==
    /\ pc = "done" /\ result.val.r = "Ok"
    /\ {SlotCa, SlotCb, SlotDa, SlotDc} \subseteq DOMAIN tree
    /\ tree[SlotCa].expression = Some(Lit(1))
    /\ tree[SlotCb].expression = Some(BinaryOp("Add", Ref("a"), Lit(1)))
    /\ tree[SlotDa].expression = Some(Ref("b"))
    /\ tree[SlotDc].expression = Some(BinaryOp("Add", Ref("a"), Ref("b")))
    /\ tree[SlotDa].constant = Some(ConstInt(2))
    /\ tree[SlotDc].constant = Some(ConstInt(4))
    /\ ConstantUnder(tree, SlotDc) = Val(ConstInt(4), <<>>)

====
